---- MODULE Spec2Model ----
(***************************************************************************)
(* Model of the KPI pipeline of dash_mtto.py: technician expansion         *)
(* (separar_tecnicos), scalar KPIs (calculate_metrics,                     *)
(* calculate_reliability_metrics), weekly series (get_weekly_data,         *)
(* get_weekly_technician_hours, get_weekly_emergency_data) and the monthly *)
(* plan compliance classification (get_monthly_plan_data,                  *)
(* get_ordenes_mes_actual), the overtime costs (calculate_overtime_costs)   *)
(* and the normalisation of the sheet (clean_and_prepare_data).            *)
(*                                                                         *)
(* A table (DataFrame) is a sequence of rows; a row is a record whose      *)
(* DOMAIN is the set of columns.  Text is a sequence of one-character      *)
(* strings, so that strip/split/upper/contains are computed, not assumed.  *)
(* A numeric cell is <<n>> or NaN == <<>>  (pandas' missing value).        *)
(* A float result is a record [clase, n, d]: the exact quotient n/d, or    *)
(* one of the IEEE specials "nan", "inf", "-inf".                          *)
(***************************************************************************)
EXTENDS Integers, Sequences, FiniteSets, TLC

VARIABLES
    df,        \* the orders table handed to the pipeline function
    hoy,       \* datetime.now().date() read by the function called
    llamada,   \* name of the pipeline function that has been called ("" = none yet)
    ret,       \* value returned by that function
    personal_data,  \* the personnel table handed to calculate_overtime_costs
    excepcion, \* name of the exception the function raised ("" = it returned)
    session_state,  \* st.session_state of the browser session: key -> value
    cache_data,     \* the results st.cache_data holds for the two sheet loaders
    corrida         \* what the last run of the script did (history)

vars == <<df, hoy, llamada, ret, personal_data, excepcion,
          session_state, cache_data, corrida>>

\* the variables of the browser session and of the loaders' cache
sesion == <<session_state, cache_data, corrida>>

\* no browser session: the pipeline functions are called on their own
SinSesion ==
    /\ session_state = <<>>
    /\ cache_data = <<>>
    /\ corrida = <<>>

\* Largest number of rows of an input table.
MaxFilas == 2

\* The personnel table is [columnas, filas]: its column names in order (texts)
\* and its rows, each a sequence of cells in the order of the columns.
\* pd.DataFrame(): no columns, no rows.
SinPersonal == [columnas |-> <<>>, filas |-> <<>>]

----------------------------------------------------------------------------
(* Cells *)

NaN == <<>>
Num(n) == <<n>>
notna(c) == c # NaN
\* The missing value of a text (object) column.
NaNTexto == <<"NaN">>

Min(S) == CHOOSE x \in S : \A y \in S : x <= y
Max(S) == CHOOSE x \in S : \A y \in S : x >= y
Abs(n) == IF n < 0 THEN -n ELSE n

RECURSIVE GCD(_, _)
GCD(a, b) == IF b = 0 THEN a ELSE GCD(b, a % b)

----------------------------------------------------------------------------
(* Text: Python str operations on sequences of characters *)

Minusculas == <<"a","b","c","d","e","f","g","h","i","j","k","l","m",
                "n","o","p","q","r","s","t","u","v","w","x","y","z">>
Mayusculas == <<"A","B","C","D","E","F","G","H","I","J","K","L","M",
                "N","O","P","Q","R","S","T","U","V","W","X","Y","Z">>
Digitos == {"0","1","2","3","4","5","6","7","8","9"}

Rango(s) == {s[i] : i \in 1..Len(s)}

\* str.isspace() for one character
IsSpace(c) == c \in {" ", "\t", "\n"}
\* regex \w and \d for one character
IsWord(c) == c \in Rango(Minusculas) \cup Rango(Mayusculas) \cup Digitos \cup {"_"}
IsDigit(c) == c \in Digitos

UpperChar(c) ==
    IF c \in Rango(Minusculas)
    THEN Mayusculas[CHOOSE i \in 1..26 : Minusculas[i] = c]
    ELSE c
LowerChar(c) ==
    IF c \in Rango(Mayusculas)
    THEN Minusculas[CHOOSE i \in 1..26 : Mayusculas[i] = c]
    ELSE c
\* str.upper() / str.lower()
Upper(s) == [i \in 1..Len(s) |-> UpperChar(s[i])]
Lower(s) == [i \in 1..Len(s) |-> LowerChar(s[i])]

\* str.strip()
Strip(s) ==
    LET noesp == {i \in 1..Len(s) : ~IsSpace(s[i])}
    IN  IF noesp = {} THEN <<>> ELSE SubSeq(s, Min(noesp), Max(noesp))

\* `sub in s`
Contains(s, sub) ==
    \E i \in 1..(Len(s) - Len(sub) + 1) : SubSeq(s, i, i + Len(sub) - 1) = sub

\* s.split(c) for a one-character separator c: every piece, empty ones included
RECURSIVE Split(_, _)
Split(s, c) ==
    LET pos == {i \in 1..Len(s) : s[i] = c}
    IN  IF pos = {} THEN <<s>>
        ELSE <<SubSeq(s, 1, Min(pos) - 1)>> \o Split(SubSeq(s, Min(pos) + 1, Len(s)), c)

\* [p.strip() for p in piezas if p.strip()]
RECURSIVE StripNoVacias(_)
StripNoVacias(piezas) ==
    IF piezas = <<>> THEN <<>>
    ELSE LET p == Strip(Head(piezas))
         IN  (IF p = <<>> THEN <<>> ELSE <<p>>) \o StripNoVacias(Tail(piezas))

\* str(cell) of a cell of a text column
Str(c) == IF c = NaNTexto THEN <<"n","a","n">> ELSE c

----------------------------------------------------------------------------
(* Regular expressions used by separar_tecnicos.  A pattern is a sequence of *)
(* items [cl, min, max]: between min and max characters of class cl, where   *)
(* cl is "w" (\w), "s" (\s), "d" (\d) or a literal character.                *)

EnClase(ch, cl) ==
    CASE cl = "w" -> IsWord(ch)
      [] cl = "s" -> IsSpace(ch)
      [] cl = "d" -> IsDigit(ch)
      [] OTHER    -> ch = cl

Mas(cl)      == [cl |-> cl, min |-> 1, max |-> 1000]
Estrella(cl) == [cl |-> cl, min |-> 0, max |-> 1000]
Literal(ch)  == [cl |-> ch, min |-> 1, max |-> 1]

\* the pattern, from its item k on, matches s from position i on
RECURSIVE Casa(_, _, _, _)
Casa(s, i, pat, k) ==
    IF k > Len(pat) THEN TRUE
    ELSE LET it == pat[k]
             tope == Min({it.max, Len(s) - i + 1})
         IN  \E n \in it.min..tope :
                /\ \A j \in i..(i + n - 1) : EnClase(s[j], it.cl)
                /\ Casa(s, i + n, pat, k + 1)

\* re.findall(patron, s) is not empty
coincidencias(patron, s) == \E i \in 1..(Len(s) + 1) : Casa(s, i, patron, 1)

\* r'(\w+\s+\d+\s*,\s*\w+\s+\d+)' and r'(\w+\s+y\s+\w+)'
patrones ==
    << << Mas("w"), Mas("s"), Mas("d"), Estrella("s"), Literal(","),
          Estrella("s"), Mas("w"), Mas("s"), Mas("d") >>,
       << Mas("w"), Mas("s"), Literal("y"), Mas("s"), Mas("w") >> >>

\* first position at or after i that holds no whitespace (Len(s)+1 if none)
FinEspacios(s, i) == Min({j \in i..(Len(s) + 1) : j > Len(s) \/ ~IsSpace(s[j])})

\* re.split(r'\s+y\s+', s, flags=re.IGNORECASE)
RECURSIVE SplitPalabraY(_)
SplitPalabraY(s) ==
    LET casa(i) ==
            /\ IsSpace(s[i])
            /\ LET j == FinEspacios(s, i)
               IN  /\ j + 1 <= Len(s)
                   /\ s[j] \in {"y", "Y"}
                   /\ IsSpace(s[j + 1])
        inicios == {i \in 1..Len(s) : casa(i)}
    IN  IF inicios = {} THEN <<s>>
        ELSE LET i == Min(inicios)
                 j == FinEspacios(s, i)
                 e == FinEspacios(s, j + 1)
             IN  <<SubSeq(s, 1, i - 1)>> \o SplitPalabraY(SubSeq(s, e, Len(s)))

----------------------------------------------------------------------------
(* separar_tecnicos *)

delimitadores == <<",", ";", "|", "/", "\\", "y", "Y", "&">>

\* partes = [p.strip() for p in responsable.split(delim) if p.strip()]
partes(responsable, delim) == StripNoVacias(Split(responsable, delim))

\* The names found in one stripped RESPONSABLE text: the first delimiter of the
\* list that yields more than one part decides; otherwise the regex fallback.
tecnicos_encontrados(responsable) ==
    LET hallados == {i \in 1..Len(delimitadores) :
                        /\ Contains(responsable, <<delimitadores[i]>>)
                        /\ Len(partes(responsable, delimitadores[i])) > 1}
    IN  IF hallados # {}
        THEN partes(responsable, delimitadores[Min(hallados)])
        ELSE IF \E p \in 1..Len(patrones) : coincidencias(patrones[p], responsable)
        THEN IF Contains(responsable, <<",">>)
             THEN StripNoVacias(Split(responsable, ","))
             ELSE IF Contains(Lower(responsable), <<"y">>)
             THEN StripNoVacias(SplitPalabraY(responsable))
             ELSE <<>>
        ELSE <<>>

ColumnasHoras == {"TR_MIN", "H_EXTRA_MIN", "H_NORMAL_MIN"}

\* The copy of `row` made for one technician: the hours are kept whole.
nueva_fila(row, tecnico) ==
    [c \in DOMAIN row |->
        IF c = "RESPONSABLE" THEN tecnico
        ELSE IF c \in ColumnasHoras
        THEN IF notna(row[c]) THEN row[c] ELSE Num(0)
        ELSE row[c]]

\* filas_de with the hours shared out among the technicians (the rule the code
\* rejects: "NO dividir las horas entre tecnicos").
filas_de_dividida(row) ==
    LET responsable == Strip(Str(row.RESPONSABLE))
        tecs == tecnicos_encontrados(responsable)
        parte(c) == IF notna(c) THEN Num(c[1] \div Len(tecs)) ELSE Num(0)
    IN  IF responsable = <<>> \/ Lower(responsable) = <<"n","a","n">> \/ Len(tecs) <= 1
        THEN <<row>>
        ELSE [i \in 1..Len(tecs) |->
                [c \in DOMAIN row |->
                    IF c = "RESPONSABLE" THEN tecs[i]
                    ELSE IF c \in ColumnasHoras THEN parte(row[c])
                    ELSE row[c]]]

\* The rows appended to filas_separadas for one input row.
filas_de(row) ==
    LET responsable == Strip(Str(row.RESPONSABLE))
    IN  IF responsable = <<>> \/ Lower(responsable) = <<"n","a","n">>
        THEN <<row>>
        ELSE LET tecs == tecnicos_encontrados(responsable)
             IN  IF Len(tecs) > 1
                 THEN [i \in 1..Len(tecs) |-> nueva_fila(row, tecs[i])]
                 ELSE <<row>>

RECURSIVE filas_separadas(_)
filas_separadas(d) ==
    IF d = <<>> THEN <<>> ELSE filas_de(Head(d)) \o filas_separadas(Tail(d))

separar_tecnicos(d) ==
    IF d = <<>> \/ "RESPONSABLE" \notin DOMAIN d[1]
    THEN d
    ELSE filas_separadas(d)

----------------------------------------------------------------------------
(* Inputs of the technician expansion: RESPONSABLE texts as they are typed in *)
(* the sheet, and the hour columns as clean_and_prepare_data leaves them      *)
(* (TR_MIN and H_EXTRA_MIN are filled with 0, H_NORMAL_MIN is not coerced).   *)

R_Ana == <<"A","n","a">>
R_AnaEsp == <<" ","A","n","a"," ">>
R_Maya == <<"M","a","y","a">>
R_Yan == <<"Y","a","n">>
R_AnaComaLuz == <<"A","n","a",","," ","L","u","z">>
R_AnaYLuz == <<"A","n","a"," ","y"," ","L","u","z">>
R_AnaPcLuz == <<"A","n","a",";","L","u","z">>
R_AnaAmpLuz == <<"A","n","a"," ","&"," ","L","u","z">>
R_AnaLuzEva == <<"A","n","a",","," ","L","u","z",";"," ","E","v","a">>
R_AnaYY == <<"A","n","a"," ","y"," ","y">>
R_TextoNan == <<"n","a","n">>

Responsables ==
    { NaNTexto, <<>>, R_Ana, R_AnaEsp, R_Maya, R_Yan, R_AnaComaLuz, R_AnaYLuz, R_AnaPcLuz, R_AnaAmpLuz, R_AnaLuzEva, R_AnaYY, R_TextoNan }

\* <<H_EXTRA_MIN, H_NORMAL_MIN>> of an order: H_NORMAL_MIN is not among the
\* columns clean_and_prepare_data fills with 0, so it may be missing
HorasSep == { <<Num(0), Num(30)>>, <<Num(120), NaN>> }

FilasSep ==
    { [ OT |-> 0, RESPONSABLE |-> r, TR_MIN |-> Num(60),
        H_EXTRA_MIN |-> h[1], H_NORMAL_MIN |-> h[2] ] :
      r \in Responsables, h \in HorasSep }

\* datetime.now().date() when no function reads the clock
HoyFijo == [year |-> 2026, month |-> 1, day |-> 10]

InitSep ==
    /\ df = <<>>
    /\ hoy = HoyFijo
    /\ llamada = ""
    /\ ret = <<>>
    /\ personal_data = SinPersonal
    /\ excepcion = ""
    /\ SinSesion

\* One more order row reaches the table; OT numbers the orders.
CargarFilaSep ==
    /\ llamada = ""
    /\ Len(df) < MaxFilas
    /\ \E r \in FilasSep : df' = Append(df, [r EXCEPT !.OT = Len(df) + 1])
    /\ UNCHANGED <<hoy, llamada, ret, personal_data, excepcion, sesion>>

LlamarSepararTecnicos ==
    /\ llamada = ""
    /\ llamada' = "separar_tecnicos"
    /\ ret' = separar_tecnicos(df)
    /\ UNCHANGED <<df, hoy, personal_data, excepcion, sesion>>

NextSep == CargarFilaSep \/ LlamarSepararTecnicos

SpecSep == InitSep /\ [][NextSep]_vars

----------------------------------------------------------------------------
(* Properties of the technician expansion *)

RECURSIVE SumaSec(_)
SumaSec(q) == IF q = <<>> THEN 0 ELSE Head(q) + SumaSec(Tail(q))

\* the rows of table d that belong to order ot
FilasDeOrden(d, ot) == SelectSeq(d, LAMBDA f : f.OT = ot)

\* the number of names the expansion finds in a row (1 when it does not split)
NumTecnicos(row) ==
    LET responsable == Strip(Str(row.RESPONSABLE))
    IN  IF responsable = <<>> \/ Lower(responsable) = <<"n","a","n">> THEN 1
        ELSE Max({1, Len(tecnicos_encontrados(responsable))})

\* what a copied hour cell holds: the original value, 0 for a missing one
HoraCopiada(c) == IF c = NaN THEN Num(0) ELSE c

Palabras(s) ==
    {SubSeq(s, a, b) : <<a, b>> \in
        {ab \in (1..Len(s)) \X (1..Len(s)) :
            /\ ab[1] <= ab[2]
            /\ \A j \in ab[1]..ab[2] : ~IsSpace(s[j])
            /\ (ab[1] = 1 \/ IsSpace(s[ab[1] - 1]))
            /\ (ab[2] = Len(s) \/ IsSpace(s[ab[2] + 1]))}}

\* a single technician name in the sense of the claim: none of , ; | / \ &
\* and not the standalone word 'y'
NombreUnico(s) ==
    /\ Strip(s) # <<>>
    /\ Rango(s) \cap {",", ";", "|", "/", "\\", "&"} = {}
    /\ Palabras(s) \cap {<<"y">>, <<"Y">>} = {}

\* C2: every row whose RESPONSABLE is a single name, empty or 'nan' appears in
\* the output exactly once, with every field unchanged.
C2_PassThrough ==
    llamada = "separar_tecnicos" =>
        \A i \in 1..Len(df) :
            LET t == Str(df[i].RESPONSABLE)
            IN  (NombreUnico(t) \/ Strip(t) = <<>> \/ Lower(Strip(t)) = <<"n","a","n">>)
                    => FilasDeOrden(ret, df[i].OT) = <<df[i]>>

----------------------------------------------------------------------------
(* Floating-point results.  The quotient of two integers is kept exact, in   *)
(* lowest terms, so that equal values are equal records; a division by zero  *)
(* gives what a pandas/numpy float division gives: nan, inf or -inf.         *)

Fin(n, d) ==
    LET g == GCD(Abs(n), Abs(d))
        sg == IF d < 0 THEN -1 ELSE 1
    IN  [clase |-> "fin", n |-> sg * (n \div g), d |-> sg * (d \div g)]
Ent(n) == [clase |-> "fin", n |-> n, d |-> 1]
Especial(c) == [clase |-> c, n |-> 0, d |-> 1]

\* a // b, the floor division a slip of the key would put for a / b
DivEntera(a, b) == IF b # 0 THEN Ent(a \div b) ELSE Especial("nan")

\* a / b for two integers
Div(a, b) ==
    IF b # 0 THEN Fin(a, b)
    ELSE IF a = 0 THEN Especial("nan")
    ELSE IF a > 0 THEN Especial("inf")
    ELSE Especial("-inf")

\* x * k for a float x and an integer k # 0
Por(x, k) == IF x.clase = "fin" THEN Fin(x.n * k, x.d) ELSE
             IF x.clase = "nan" THEN x ELSE
             IF k > 0 THEN x ELSE
             IF x.clase = "inf" THEN Especial("-inf") ELSE Especial("inf")

\* x + y for two finite floats
Mas2(x, y) == Fin(x.n * y.d + y.n * x.d, x.d * y.d)

EsFinito(x) == x.clase \notin {"nan", "inf", "-inf"}

\* 1 - np.exp(-x) for a finite x, kept symbolic: the record names its argument
UnoMenosExp(x) == [clase |-> "1-exp", n |-> x.n, d |-> x.d]

----------------------------------------------------------------------------
(* Column operations of a DataFrame *)

\* d[mask], the rows of d that satisfy a mask, is SelectSeq(d, mask)

\* d[c].sum(): missing cells are skipped
RECURSIVE SumCol(_, _)
SumCol(d, c) ==
    IF d = <<>> THEN 0
    ELSE (IF notna(Head(d)[c]) THEN Head(d)[c][1] ELSE 0) + SumCol(Tail(d), c)

\* `c in d.columns` for a table with rows
TieneColumna(d, c) == c \in DOMAIN d[1]

\* sub[c].sum() if c in d.columns else 0, for a selection sub of the rows of d
SumSiColumna(d, sub, c) == IF TieneColumna(d, c) THEN SumCol(sub, c) ELSE 0

\* a production mask that lets every row through
EsCualquiera(f) == TRUE

EsSI(f) == f.PRODUCCION_AFECTADA = "SI"
\* the emergency mask narrowed to the records that stopped production
EsEmergenciaConParada(f) ==
    f.TIPO_DE_MTTO = "CORRECTIVO DE EMERGENCIA" /\ f.PRODUCCION_AFECTADA = "SI"
EsEmergencia(f) == f.TIPO_DE_MTTO = "CORRECTIVO DE EMERGENCIA"

----------------------------------------------------------------------------
(* calculate_metrics *)

\* 100 * TR(tipo) / TR(all types), 0 when no TR at all
Pct(d, tipo) ==
    LET total_mtto == SumCol(d, "TR_MIN")
    IN  IF total_mtto > 0
        THEN Por(Div(SumCol(SelectSeq(d, LAMBDA f : f.TIPO_DE_MTTO = tipo), "TR_MIN"),
                     total_mtto), 100)
        ELSE Ent(0)

calculate_metrics(d) ==
    IF d = <<>> THEN <<>>
    ELSE
    LET td == SumSiColumna(d, d, "TDISPONIBLE")
        afectada == SelectSeq(d, EsSI)
        tfs == SumSiColumna(d, afectada, "TFS_MIN")
        tr == SumSiColumna(d, afectada, "TR_MIN")
        tfc == SumSiColumna(d, afectada, "TFC_MIN")
        to == Max({td - tfs, 0})
        total_fallas == Len(afectada)
        landa == IF td > 0 THEN Div(total_fallas, td) ELSE Ent(0)
    IN  [ td |-> td, tfs |-> tfs, tr |-> tr, tfc |-> tfc, to |-> to,
          disponibilidad |-> IF td > 0 THEN Por(Div(to, td), 100) ELSE Ent(0),
          indisponibilidad |-> IF td > 0 THEN Por(Div(tfs, td), 100) ELSE Ent(0),
          total_fallas |-> total_fallas,
          mtbf |-> IF total_fallas > 0 THEN Div(td, total_fallas) ELSE Ent(0),
          mttf |-> IF total_fallas > 0 THEN Div(to, total_fallas) ELSE Ent(0),
          mttr |-> IF total_fallas > 0 THEN Div(tr, total_fallas) ELSE Ent(0),
          mantenibilidad |-> IF landa.n > 0 THEN UnoMenosExp(Por(landa, td)) ELSE Ent(0),
          mp_pct |-> Pct(d, "PREVENTIVO"),
          mbc_pct |-> Pct(d, "BASADO EN CONDICION"),
          mce_pct |-> Pct(d, "CORRECTIVO DE EMERGENCIA"),
          mcp_pct |-> Pct(d, "CORRECTIVO PROGRAMADO"),
          mms_pct |-> Pct(d, "MEJORA DE SISTEMA"),
          horas_extras_acumuladas |-> SumSiColumna(d, d, "H_EXTRA_MIN") ]

----------------------------------------------------------------------------
(* calculate_reliability_metrics *)

calculate_reliability_metrics(d) ==
    IF d = <<>> THEN <<>>
    ELSE
    LET df_emergency == SelectSeq(d, EsEmergencia)
    IN  IF df_emergency = <<>> THEN <<>>
        ELSE
        LET td == SumSiColumna(d, d, "TDISPONIBLE")
            tr_emergency == SumSiColumna(d, df_emergency, "TR_MIN")
            tfc_emergency == SumSiColumna(d, df_emergency, "TFC_MIN")
            tfs_emergency == SumSiColumna(d, df_emergency, "TFS_MIN")
            total == Len(df_emergency)
            con_parada == Len(SelectSeq(df_emergency, EsSI))
            tfs_emergency_prod == SumSiColumna(d, SelectSeq(df_emergency, EsSI), "TFS_MIN")
            to_emergency == Max({td - tfs_emergency_prod, 0})
            landa_emergency == IF td > 0 THEN Div(total, td) ELSE Ent(0)
            mant == IF landa_emergency.n > 0
                    THEN UnoMenosExp(Por(landa_emergency, td)) ELSE Ent(0)
        IN  [ td |-> td,
              tr_emergency |-> tr_emergency,
              tfc_emergency |-> tfc_emergency,
              tfs_emergency |-> tfs_emergency,
              total_fallas_emergency |-> total,
              total_fallas_emergency_con_parada |-> con_parada,
              mtbf_emergency |-> IF total > 0 /\ td > 0 THEN Div(td, total) ELSE Ent(0),
              mttr_emergency |-> IF total > 0 THEN Div(tr_emergency, total) ELSE Ent(0),
              mttf_emergency |-> IF total > 0 THEN Div(to_emergency, total) ELSE Ent(0),
              mantenibilidad_emergency |-> mant,
              \* mantenibilidad_emergency * 100
              mantenibilidad_pct |-> [mant EXCEPT !.clase =
                    IF @ = "1-exp" THEN "100*(1-exp)" ELSE @] ]

----------------------------------------------------------------------------
(* Inputs of the scalar KPIs: rows as clean_and_prepare_data leaves them     *)
(* (every duration column numeric, missing values filled with 0).            *)

\* <<TDISPONIBLE, TFS_MIN, TR_MIN, TFC_MIN, H_EXTRA_MIN>> of an order
TiemposKpi ==
    { <<480, 60, 30, 15, 120>>,
      <<60, 120, 45, 0, 0>>,
      <<0, 30, 20, 10, 60>>,
      <<480, 0, 0, 0, 0>> }

FilasKpi ==
    { [ OT |-> 0,
        TIPO_DE_MTTO |-> tipo,
        PRODUCCION_AFECTADA |-> pa,
        TDISPONIBLE |-> Num(t[1]),
        TFS_MIN |-> Num(t[2]),
        TR_MIN |-> Num(t[3]),
        TFC_MIN |-> Num(t[4]),
        H_EXTRA_MIN |-> Num(t[5]) ] :
      tipo \in {"CORRECTIVO DE EMERGENCIA", "PREVENTIVO"},
      pa \in {"SI", "NO"},
      t \in TiemposKpi }

InitKpi ==
    /\ df = <<>>
    /\ hoy = HoyFijo
    /\ llamada = ""
    /\ ret = <<>>
    /\ personal_data = SinPersonal
    /\ excepcion = ""
    /\ SinSesion

CargarFilaKpi ==
    /\ llamada = ""
    /\ Len(df) < MaxFilas
    /\ \E r \in FilasKpi : df' = Append(df, [r EXCEPT !.OT = Len(df) + 1])
    /\ UNCHANGED <<hoy, llamada, ret, personal_data, excepcion, sesion>>

LlamarCalculateMetrics ==
    /\ llamada = ""
    /\ llamada' = "calculate_metrics"
    /\ ret' = calculate_metrics(df)
    /\ UNCHANGED <<df, hoy, personal_data, excepcion, sesion>>

LlamarCalculateReliabilityMetrics ==
    /\ llamada = ""
    /\ llamada' = "calculate_reliability_metrics"
    /\ ret' = calculate_reliability_metrics(df)
    /\ UNCHANGED <<df, hoy, personal_data, excepcion, sesion>>

NextKpi ==
    \/ CargarFilaKpi
    \/ LlamarCalculateMetrics
    \/ LlamarCalculateReliabilityMetrics

SpecKpi == InitKpi /\ [][NextKpi]_vars

----------------------------------------------------------------------------
(* Properties of calculate_metrics *)

\* x <= y for two finite floats
MenorIgual(x, y) == x.n * y.d <= y.n * x.d

\* C3: for every non-empty record set 0 <= disponibilidad <= 100, and
\* disponibilidad + indisponibilidad = 100 whenever td > 0.
C3_AvailabilityBound ==
    (llamada = "calculate_metrics" /\ df # <<>>) =>
        /\ MenorIgual(Ent(0), ret.disponibilidad)
        /\ MenorIgual(ret.disponibilidad, Ent(100))
        /\ ret.td > 0 => Mas2(ret.disponibilidad, ret.indisponibilidad) = Ent(100)

\* the sum of column c over the rows of d that satisfy P, written out from
\* the claim and not from the code
SumaDonde(d, c, P(_)) ==
    SumaSec([i \in 1..Len(d) |-> IF P(d[i]) THEN d[i][c][1] ELSE 0])

\* C10: td sums TDISPONIBLE over all records; tfs, tr and tfc sum TFS_MIN,
\* TR_MIN and TFC_MIN over the records with PRODUCCION_AFECTADA = 'SI' only;
\* to = max(td - tfs, 0); disponibilidad = 100*to/td and indisponibilidad =
\* 100*tfs/td; horas_extras_acumuladas sums H_EXTRA_MIN over all records.
C10_Sums ==
    (llamada = "calculate_metrics" /\ df # <<>>) =>
        LET si(f) == f.PRODUCCION_AFECTADA = "SI"
            todas(f) == TRUE
            td == SumaDonde(df, "TDISPONIBLE", todas)
            tfs == SumaDonde(df, "TFS_MIN", si)
        IN  /\ ret.td = td
            /\ ret.tfs = tfs
            /\ ret.tr = SumaDonde(df, "TR_MIN", si)
            /\ ret.tfc = SumaDonde(df, "TFC_MIN", si)
            /\ ret.to = (IF td - tfs > 0 THEN td - tfs ELSE 0)
            /\ td > 0 =>
                  /\ ret.disponibilidad.n * td = 100 * ret.to * ret.disponibilidad.d
                  /\ ret.indisponibilidad.n * td = 100 * tfs * ret.indisponibilidad.d
            /\ ret.horas_extras_acumuladas = SumaDonde(df, "H_EXTRA_MIN", todas)
            \* one record: available 480, SI, TFS 60
            /\ (Len(df) = 1 /\ td = 480 /\ tfs = 60) =>
                  /\ ret.to = 420
                  /\ ret.disponibilidad = Fin(875, 10)
                  /\ ret.indisponibilidad = Fin(125, 10)

\* Two records, one with and one without production affected, both with
\* out-of-service time and overtime, have been aggregated.
C10_Witness ==
    /\ llamada = "calculate_metrics"
    /\ Len(df) = 2
    /\ df[1].PRODUCCION_AFECTADA = "SI" /\ df[1].TFS_MIN = Num(60)
    /\ df[2].PRODUCCION_AFECTADA = "NO" /\ df[2].TFS_MIN = Num(120)
    /\ df[2].H_EXTRA_MIN = Num(120) \/ df[1].H_EXTRA_MIN = Num(120)
    /\ ret.tfs = 60 /\ ret.td = 540

----------------------------------------------------------------------------
(* Dates: a date is [year, month, day] (pandas .dt.year, .dt.month, .dt.day) *)
(* of the proleptic Gregorian calendar.                                      *)

Fecha(y, m, d) == [year |-> y, month |-> m, day |-> d]

EsBisiesto(y) == (y % 4 = 0 /\ y % 100 # 0) \/ y % 400 = 0

DiasDelMes(y, m) ==
    IF m = 2 THEN (IF EsBisiesto(y) THEN 29 ELSE 28)
    ELSE IF m \in {4, 6, 9, 11} THEN 30 ELSE 31

\* days before January 1st of year y
DiasAntesDelAnio(y) ==
    LET p == y - 1 IN p * 365 + p \div 4 - p \div 100 + p \div 400

RECURSIVE DiasAntesDelMes(_, _)
DiasAntesDelMes(y, m) ==
    IF m = 1 THEN 0 ELSE DiasAntesDelMes(y, m - 1) + DiasDelMes(y, m - 1)

\* date.toordinal(): January 1st of year 1 is day 1
Ordinal(f) == DiasAntesDelAnio(f.year) + DiasAntesDelMes(f.year, f.month) + f.day

\* date comparisons
Antes(f, g) == Ordinal(f) < Ordinal(g)
AntesOIgual(f, g) == Ordinal(f) <= Ordinal(g)

\* the ordinal of the Monday that starts ISO week 1 of year y
LunesSemana1(y) ==
    LET firstday == DiasAntesDelAnio(y) + 1
        firstweekday == (firstday + 6) % 7
        week1monday == firstday - firstweekday
    IN  IF firstweekday > 3 THEN week1monday + 7 ELSE week1monday

\* date.isocalendar(): <<ISO year, ISO week>>
IsoCalendar(f) ==
    LET o == Ordinal(f)
        y == f.year
    IN  IF o < LunesSemana1(y)
        THEN <<y - 1, (o - LunesSemana1(y - 1)) \div 7 + 1>>
        ELSE IF o >= LunesSemana1(y + 1)
        THEN <<y + 1, 1>>
        ELSE <<y, (o - LunesSemana1(y)) \div 7 + 1>>

----------------------------------------------------------------------------
(* Week columns added by the three weekly aggregators *)

\* str(n) for n >= 0, as characters
RECURSIVE Decimal(_)
Decimal(n) ==
    LET dig == <<"0","1","2","3","4","5","6","7","8","9">>
    IN  IF n < 10 THEN <<dig[n + 1]>> ELSE Decimal(n \div 10) \o <<dig[(n % 10) + 1]>>

\* f"{n:02d}"
Decimal02(n) == IF n < 10 THEN <<"0">> \o Decimal(n) ELSE Decimal(n)

\* SEMANA = FECHA_DE_INICIO.dt.isocalendar().week
SEMANA(f) == IsoCalendar(f.FECHA_DE_INICIO)[2]
\* AÑO = FECHA_DE_INICIO.dt.year
ANIO(f) == f.FECHA_DE_INICIO.year
\* SEMANA_STR = f"{AÑO}-S{SEMANA:02d}"
SEMANA_STR(f) == Decimal(ANIO(f)) \o <<"-", "S">> \o Decimal02(SEMANA(f))
\* SEMANA_NUM = AÑO * 100 + SEMANA
SEMANA_NUM(anio, semana) == anio * 100 + semana

\* the groupby keys (SEMANA_STR, AÑO, SEMANA) present in d
ClavesSemana(d) ==
    {<<SEMANA_STR(d[i]), ANIO(d[i]), SEMANA(d[i])>> : i \in 1..Len(d)}

DeLaSemana(d, k) ==
    SelectSeq(d, LAMBDA f : <<SEMANA_STR(f), ANIO(f), SEMANA(f)>> = k)

\* the keys in the order sort_values('SEMANA_NUM') leaves their buckets
RECURSIVE PorSemanaNum(_)
PorSemanaNum(claves) ==
    IF claves = {} THEN <<>>
    ELSE LET k == CHOOSE x \in claves :
                    \A y \in claves :
                        SEMANA_NUM(x[2], x[3]) <= SEMANA_NUM(y[2], y[3])
         IN  <<k>> \o PorSemanaNum(claves \ {k})

----------------------------------------------------------------------------
(* get_weekly_data *)

get_weekly_data(d) ==
    IF d = <<>> \/ ~TieneColumna(d, "FECHA_DE_INICIO") THEN <<>>
    ELSE
    LET afectada == SelectSeq(d, EsSI)
        ks == PorSemanaNum(ClavesSemana(afectada))
        cubo(k) ==
            LET g == DeLaSemana(afectada, k)
                tdisp == SumCol(g, "TDISPONIBLE")
                tfs == SumCol(g, "TFS_MIN")
            IN  [ SEMANA_STR |-> k[1], ANIO |-> k[2], SEMANA |-> k[3],
                  TFS_MIN |-> tfs,
                  TR_MIN |-> SumCol(g, "TR_MIN"),
                  TFC_MIN |-> SumCol(g, "TFC_MIN"),
                  TDISPONIBLE |-> tdisp,
                  PRODUCCION_AFECTADA |-> Len(SelectSeq(g, EsSI)),
                  DISPO_SEMANAL |-> Por(Div(tdisp - tfs, tdisp), 100),
                  SEMANA_NUM |-> SEMANA_NUM(k[2], k[3]) ]
    IN  [i \in 1..Len(ks) |-> cubo(ks[i])]

----------------------------------------------------------------------------
(* get_weekly_emergency_data *)

get_weekly_emergency_data(d) ==
    IF d = <<>> \/ ~TieneColumna(d, "FECHA_DE_INICIO") THEN <<>>
    ELSE
    LET df_emergency == SelectSeq(d, EsEmergencia)
        ks == PorSemanaNum(ClavesSemana(df_emergency))
        cubo(k) ==
            LET g == DeLaSemana(df_emergency, k)
                tr == SumCol(g, "TR_MIN")
                num == Len(g)
            IN  [ SEMANA_STR |-> k[1], ANIO |-> k[2], SEMANA |-> k[3],
                  TR_MIN |-> tr,
                  TFC_MIN |-> SumCol(g, "TFC_MIN"),
                  TFS_MIN |-> SumCol(g, "TFS_MIN"),
                  \* 'first': the first non-missing value of the group
                  TDISPONIBLE |->
                      LET con == SelectSeq(g, LAMBDA f : notna(f.TDISPONIBLE))
                      IN  IF con = <<>> THEN NaN ELSE con[1].TDISPONIBLE,
                  NUM_ORDENES_EMERGENCIA |-> num,
                  NUM_ORDENES_EMERGENCIA_PARADA |-> Len(SelectSeq(g, EsSI)),
                  MTTR_SEMANAL |-> IF num > 0 THEN Div(tr, num) ELSE Ent(0),
                  SEMANA_NUM |-> SEMANA_NUM(k[2], k[3]) ]
    IN  [i \in 1..Len(ks) |-> cubo(ks[i])]

----------------------------------------------------------------------------
(* get_weekly_technician_hours *)

\* the groupby keys (SEMANA_STR, AÑO, SEMANA, RESPONSABLE); a missing
\* RESPONSABLE is no key
ClavesSemanaTecnico(d) ==
    {<<SEMANA_STR(d[i]), ANIO(d[i]), SEMANA(d[i]), d[i].RESPONSABLE>> :
        i \in {j \in 1..Len(d) : d[j].RESPONSABLE # NaNTexto}}

\* every order of the buckets that sort_values('SEMANA_NUM') may return: the
\* sort is not stable, so buckets of one week come in any order
OrdenesPorSemanaNum(cubos) ==
    {q \in [1..Cardinality(cubos) -> cubos] :
        /\ \A i, j \in DOMAIN q : i # j => q[i] # q[j]
        /\ \A i, j \in DOMAIN q : i < j => q[i].SEMANA_NUM <= q[j].SEMANA_NUM}

\* the buckets of get_weekly_technician_hours, before the final sort
cubos_tecnico(d) ==
    LET df_weekly == separar_tecnicos(d)
        cubo(k) ==
            LET g == SelectSeq(df_weekly, LAMBDA f :
                        <<SEMANA_STR(f), ANIO(f), SEMANA(f), f.RESPONSABLE>> = k)
                tr == SumCol(g, "TR_MIN")
                hx == SumCol(g, "H_EXTRA_MIN")
            IN  [ SEMANA_STR |-> k[1], ANIO |-> k[2], SEMANA |-> k[3],
                  RESPONSABLE |-> k[4],
                  TR_MIN |-> tr, H_EXTRA_MIN |-> hx,
                  TR_HORAS |-> Div(tr, 60), H_EXTRA_HORAS |-> Div(hx, 60),
                  SEMANA_NUM |-> SEMANA_NUM(k[2], k[3]) ]
    IN  {cubo(k) : k \in ClavesSemanaTecnico(df_weekly)}

\* the set of tables get_weekly_technician_hours may return
get_weekly_technician_hours(d) ==
    IF d = <<>> \/ ~TieneColumna(d, "FECHA_DE_INICIO") \/ ~TieneColumna(d, "RESPONSABLE")
    THEN {<<>>}
    ELSE OrdenesPorSemanaNum(cubos_tecnico(d))

----------------------------------------------------------------------------
(* Status normalisation of get_monthly_plan_data and get_ordenes_mes_actual *)

T_CULMINAD == <<"C","U","L","M","I","N","A","D">>
T_PROCESO == <<"P","R","O","C","E","S","O">>
T_PROGRESO == <<"P","R","O","G","R","E","S","O">>
T_EJECUCI == <<"E","J","E","C","U","C","I">>
T_PENDIENTE == <<"P","E","N","D","I","E","N","T","E">>
CULMINADO == <<"C","U","L","M","I","N","A","D","O">>
EN_PROCESO == <<"E","N"," ","P","R","O","C","E","S","O">>
PENDIENTE == <<"P","E","N","D","I","E","N","T","E">>

\* STATUS.astype(str).str.upper().str.strip(), then the three rewrites in order
STATUS_NORM(status) ==
    LET s0 == Strip(Upper(Str(status)))
        s1 == IF Contains(s0, T_CULMINAD) THEN CULMINADO ELSE s0
        s2 == IF \/ Contains(s1, T_PROCESO)
                 \/ Contains(s1, T_PROGRESO)
                 \/ Contains(s1, T_EJECUCI)
              THEN EN_PROCESO ELSE s1
    IN  IF Contains(s2, T_PENDIENTE) THEN PENDIENTE ELSE s2

\* the STATUS_NORM column of a table: CULMINADO throughout without a STATUS column
StatusNormDe(d, f) ==
    IF TieneColumna(d, "STATUS") THEN STATUS_NORM(f.STATUS) ELSE CULMINADO

\* "BASADO EN CONDICION" stands for the accented text of the source
tipos_planificados == {"PREVENTIVO", "BASADO EN CONDICION", "MEJORA DE SISTEMA"}

----------------------------------------------------------------------------
(* get_monthly_plan_data *)

meses_todos ==
    << "Enero", "Febrero", "Marzo", "Abril", "Mayo", "Junio", "Julio",
       "Agosto", "Septiembre", "Octubre", "Noviembre", "Diciembre" >>

\* one row of monthly_data
FilaMes(mes, year, total, culminadas, en_ejecucion, retrasadas, proyectadas) ==
    [ MES |-> mes, MES_NOMBRE |-> meses_todos[mes], ANIO |-> year, MES_ORDEN |-> mes,
      TOTAL_PLANIFICADAS |-> total,
      ORDENES_CULMINADAS |-> culminadas,
      ORDENES_EN_EJECUCION |-> en_ejecucion,
      ORDENES_RETRASADAS |-> retrasadas,
      ORDENES_PROYECTADAS |-> proyectadas,
      CUMPLIMIENTO_PCT |-> IF total > 0 THEN Por(Div(culminadas, total), 100)
                           ELSE Ent(0) ]

\* the cut-off taken one day too early (< fecha_corte instead of <=)
AntesDeFechaCorte(f, fecha_actual) ==
    /\ Ordinal(f.FECHA_DE_INICIO) < Ordinal(fecha_actual) - 1
    /\ Ordinal(f.FECHA_DE_FIN) < Ordinal(fecha_actual) - 1

\* no cut-off: every planned order of the year is classified
SinFechaCorte(f, fecha_actual) == TRUE

\* the rows kept by the cut-off: start and end up to the day before fecha_actual
HastaFechaCorte(f, fecha_actual) ==
    /\ Ordinal(f.FECHA_DE_INICIO) <= Ordinal(fecha_actual) - 1
    /\ Ordinal(f.FECHA_DE_FIN) <= Ordinal(fecha_actual) - 1

\* mask_proyectadas and mask_retrasadas for a row whose status is PENDIENTE
EsProyectada(f, fecha_actual) ==
    \/ ~Antes(f.FECHA_DE_INICIO, fecha_actual)
    \/ (Antes(f.FECHA_DE_INICIO, fecha_actual) /\ ~Antes(f.FECHA_DE_FIN, fecha_actual))

EsRetrasada(f, fecha_actual) ==
    /\ Antes(f.FECHA_DE_INICIO, fecha_actual)
    /\ Antes(f.FECHA_DE_FIN, fecha_actual)

get_monthly_plan_data(d, year, fecha_actual) ==
    LET df_plan_filtrado ==
            IF d = <<>> \/ ~TieneColumna(d, "FECHA_DE_INICIO")
                        \/ ~TieneColumna(d, "TIPO_DE_MTTO")
            THEN <<>>
            ELSE SelectSeq(d, LAMBDA f :
                    /\ f.TIPO_DE_MTTO \in tipos_planificados
                    /\ f.FECHA_DE_INICIO.year = year
                    /\ HastaFechaCorte(f, fecha_actual))
        delMes(mes) == SelectSeq(df_plan_filtrado,
                               LAMBDA f : f.FECHA_DE_INICIO.month = mes)
        cuenta(mes, P(_)) == Len(SelectSeq(delMes(mes), P))
        norm(f) == StatusNormDe(d, f)
    IN  [ mes \in 1..12 |->
            FilaMes(mes, year,
                Len(delMes(mes)),
                cuenta(mes, LAMBDA f : norm(f) = CULMINADO),
                cuenta(mes, LAMBDA f : norm(f) = EN_PROCESO),
                cuenta(mes, LAMBDA f : norm(f) = PENDIENTE /\ EsRetrasada(f, fecha_actual)),
                cuenta(mes, LAMBDA f : norm(f) = PENDIENTE /\ EsProyectada(f, fecha_actual))) ]

----------------------------------------------------------------------------
(* get_ordenes_mes_actual *)

\* strftime('%d/%m/%Y')
FechaDDMMAAAA(f) ==
    Decimal02(f.day) \o <<"/">> \o Decimal02(f.month) \o <<"/">> \o Decimal(f.year)

orden_categorias == <<"RETRASADA", "EN EJECUCION", "POR EJECUTAR EN ENERO", "EJECUTADA">>

CATEGORIA(d, f, fecha_actual) ==
    LET st == StatusNormDe(d, f)
    IN  IF st = CULMINADO THEN "EJECUTADA"
        ELSE IF st = PENDIENTE /\ (\/ ~Antes(f.FECHA_DE_INICIO, fecha_actual)
                                   \/ ~Antes(f.FECHA_DE_FIN, fecha_actual))
        THEN "POR EJECUTAR EN ENERO"
        ELSE IF st = EN_PROCESO THEN "EN EJECUCION"
        ELSE IF st = PENDIENTE /\ EsRetrasada(f, fecha_actual) THEN "RETRASADA"
        ELSE "OTROS"

\* position of a category in orden_categorias; a category outside it sorts last
CATEGORIA_ORDEN(c) ==
    IF \E i \in 1..4 : orden_categorias[i] = c
    THEN CHOOSE i \in 1..4 : orden_categorias[i] = c
    ELSE 5

\* sort_values(['CATEGORIA_ORDEN', 'FECHA_DE_INICIO']): a stable sort on the pair
RECURSIVE OrdenarPorCategoria(_, _, _)
OrdenarPorCategoria(d, orig, fecha_actual) ==
    IF d = <<>> THEN <<>>
    ELSE LET clave(f) == <<CATEGORIA_ORDEN(CATEGORIA(orig, f, fecha_actual)),
                           Ordinal(f.FECHA_DE_INICIO)>>
             menor(a, b) == a[1] < b[1] \/ (a[1] = b[1] /\ a[2] < b[2])
             i == CHOOSE k \in 1..Len(d) :
                    /\ \A j \in 1..Len(d) : ~menor(clave(d[j]), clave(d[k]))
                    /\ \A j \in 1..(k - 1) : clave(d[j]) # clave(d[k])
         IN  <<d[i]>> \o OrdenarPorCategoria(
                 SubSeq(d, 1, i - 1) \o SubSeq(d, i + 1, Len(d)), orig, fecha_actual)

get_ordenes_mes_actual(d, fecha_actual) ==
    IF d = <<>> THEN <<>>
    ELSE
    LET df_mes_actual == SelectSeq(d, LAMBDA f :
                            /\ f.TIPO_DE_MTTO \in tipos_planificados
                            /\ f.FECHA_DE_INICIO.year = fecha_actual.year
                            /\ f.FECHA_DE_INICIO.month = fecha_actual.month)
        ordenadas == OrdenarPorCategoria(df_mes_actual, d, fecha_actual)
    IN  [ i \in 1..Len(ordenadas) |->
            LET f == ordenadas[i]
            IN  [ OT |-> IF TieneColumna(d, "OT") THEN f.OT ELSE <<>>,
                  TIPO_DE_MTTO |-> f.TIPO_DE_MTTO,
                  EQUIPO |-> IF TieneColumna(d, "EQUIPO") THEN f.EQUIPO ELSE <<>>,
                  FECHA_DE_INICIO |-> FechaDDMMAAAA(f.FECHA_DE_INICIO),
                  FECHA_DE_FIN |-> FechaDDMMAAAA(f.FECHA_DE_FIN),
                  ESTADO |-> IF TieneColumna(d, "STATUS") THEN f.STATUS
                             ELSE StatusNormDe(d, f),
                  CATEGORIA |-> CATEGORIA(d, f, fecha_actual) ] ]

----------------------------------------------------------------------------
(* Dated tables: the weekly aggregators, the scalar KPIs and the monthly     *)
(* plan on rows with a start date around the turn of the year.               *)

FechasSem ==
    { Fecha(2025, 12, 22), Fecha(2025, 12, 29), Fecha(2026, 1, 2), Fecha(2026, 1, 5) }

\* <<TIPO DE MTTO, PRODUCCION_AFECTADA, TDISPONIBLE, TFS_MIN, TR_MIN, TFC_MIN,
\* H_EXTRA_MIN, RESPONSABLE>> of an order
TiemposSem ==
    { <<"CORRECTIVO DE EMERGENCIA", "SI", 480, 60, 30, 15, 120, R_AnaComaLuz>>,
      <<"CORRECTIVO DE EMERGENCIA", "SI", 0, 30, 20, 10, 0, R_Ana>>,
      <<"PREVENTIVO", "SI", 480, 60, 30, 15, 120, R_Ana>>,
      <<"PREVENTIVO", "NO", 480, 60, 30, 15, 120, R_Ana>> }

FilasSem ==
    { [ OT |-> 0,
        TIPO_DE_MTTO |-> t[1],
        PRODUCCION_AFECTADA |-> t[2],
        STATUS |-> CULMINADO,
        FECHA_DE_INICIO |-> f,
        FECHA_DE_FIN |-> f,
        RESPONSABLE |-> t[8],
        TDISPONIBLE |-> Num(t[3]),
        TFS_MIN |-> Num(t[4]),
        TR_MIN |-> Num(t[5]),
        TFC_MIN |-> Num(t[6]),
        H_EXTRA_MIN |-> Num(t[7]) ] :
      f \in FechasSem,
      t \in TiemposSem }

InitSem ==
    /\ df = <<>>
    /\ hoy = HoyFijo
    /\ llamada = ""
    /\ ret = <<>>
    /\ personal_data = SinPersonal
    /\ excepcion = ""
    /\ SinSesion

CargarFilaSem ==
    /\ llamada = ""
    /\ Len(df) < MaxFilas
    /\ \E r \in FilasSem : df' = Append(df, [r EXCEPT !.OT = Len(df) + 1])
    /\ UNCHANGED <<hoy, llamada, ret, personal_data, excepcion, sesion>>

LlamarGetWeeklyData ==
    /\ llamada = ""
    /\ llamada' = "get_weekly_data"
    /\ ret' = get_weekly_data(df)
    /\ UNCHANGED <<df, hoy, personal_data, excepcion, sesion>>

LlamarGetWeeklyTechnicianHours ==
    /\ llamada = ""
    /\ llamada' = "get_weekly_technician_hours"
    /\ \E t \in get_weekly_technician_hours(df) : ret' = t
    /\ UNCHANGED <<df, hoy, personal_data, excepcion, sesion>>

LlamarGetWeeklyEmergencyData ==
    /\ llamada = ""
    /\ llamada' = "get_weekly_emergency_data"
    /\ ret' = get_weekly_emergency_data(df)
    /\ UNCHANGED <<df, hoy, personal_data, excepcion, sesion>>

LlamarCalculateMetricsSem ==
    /\ llamada = ""
    /\ llamada' = "calculate_metrics"
    /\ ret' = calculate_metrics(df)
    /\ UNCHANGED <<df, hoy, personal_data, excepcion, sesion>>

LlamarCalculateReliabilityMetricsSem ==
    /\ llamada = ""
    /\ llamada' = "calculate_reliability_metrics"
    /\ ret' = calculate_reliability_metrics(df)
    /\ UNCHANGED <<df, hoy, personal_data, excepcion, sesion>>

\* main calls get_monthly_plan_data(st.session_state.data, year=2026)
LlamarGetMonthlyPlanDataSem ==
    /\ llamada = ""
    /\ llamada' = "get_monthly_plan_data"
    /\ ret' = get_monthly_plan_data(df, 2026, hoy)
    /\ UNCHANGED <<df, hoy, personal_data, excepcion, sesion>>

NextSem ==
    \/ CargarFilaSem
    \/ LlamarGetWeeklyData
    \/ LlamarGetWeeklyTechnicianHours
    \/ LlamarGetWeeklyEmergencyData
    \/ LlamarCalculateMetricsSem
    \/ LlamarCalculateReliabilityMetricsSem
    \/ LlamarGetMonthlyPlanDataSem

SpecSem == InitSem /\ [][NextSem]_vars

----------------------------------------------------------------------------
(* Plan tables: planned orders with a raw status and a start and end date    *)
(* around the current date.                                                  *)

S_Culminada == <<"C","u","l","m","i","n","a","d","a">>
S_pendiente == <<"p","e","n","d","i","e","n","t","e"," ">>
S_EnProceso == <<"E","n"," ","p","r","o","c","e","s","o">>
S_Cancelado == <<"C","a","n","c","e","l","a","d","o">>

EstadosPlan == { S_Culminada, S_pendiente, S_EnProceso, S_Cancelado, NaNTexto }

\* <<FECHA_DE_INICIO, FECHA_DE_FIN>> of an order
PeriodosPlan ==
    { <<Fecha(2026, 1, 1), Fecha(2026, 1, 3)>>,
      <<Fecha(2026, 1, 1), Fecha(2026, 1, 15)>>,
      <<Fecha(2026, 1, 9), Fecha(2026, 1, 9)>>,
      <<Fecha(2026, 1, 10), Fecha(2026, 1, 10)>>,
      <<Fecha(2026, 1, 20), Fecha(2026, 2, 1)>>,
      <<Fecha(2025, 12, 30), Fecha(2026, 1, 2)>> }

\* the dates datetime.now().date() takes
Hoys == { Fecha(2026, 1, 10), Fecha(2026, 2, 2) }

FilaPlan(tipo, st, p) ==
    [ OT |-> 0, TIPO_DE_MTTO |-> tipo, STATUS |-> st,
      FECHA_DE_INICIO |-> p[1], FECHA_DE_FIN |-> p[2] ]

\* the periods that lie before both dates of Hoys or around the first
PeriodosCortos ==
    { <<Fecha(2026, 1, 1), Fecha(2026, 1, 3)>>,
      <<Fecha(2026, 1, 1), Fecha(2026, 1, 15)>> }

FilasPlan ==
    { FilaPlan("PREVENTIVO", S_pendiente, p) : p \in PeriodosPlan }
    \cup { FilaPlan("PREVENTIVO", st, p) : st \in EstadosPlan, p \in PeriodosCortos }
    \cup { FilaPlan("CORRECTIVO DE EMERGENCIA", S_pendiente,
                    <<Fecha(2026, 1, 1), Fecha(2026, 1, 3)>>) }

InitPlan ==
    /\ df = <<>>
    /\ hoy = HoyFijo
    /\ llamada = ""
    /\ ret = <<>>
    /\ personal_data = SinPersonal
    /\ excepcion = ""
    /\ SinSesion

CargarFilaPlan ==
    /\ llamada = ""
    /\ Len(df) < MaxFilas
    /\ \E r \in FilasPlan : df' = Append(df, [r EXCEPT !.OT = Len(df) + 1])
    /\ UNCHANGED <<hoy, llamada, ret, personal_data, excepcion, sesion>>

LlamarGetMonthlyPlanData ==
    /\ llamada = ""
    /\ \E h \in Hoys :
          /\ hoy' = h
          /\ ret' = get_monthly_plan_data(df, 2026, h)
    /\ llamada' = "get_monthly_plan_data"
    /\ UNCHANGED <<df, personal_data, excepcion, sesion>>

LlamarGetOrdenesMesActual ==
    /\ llamada = ""
    /\ \E h \in Hoys :
          /\ hoy' = h
          /\ ret' = get_ordenes_mes_actual(df, h)
    /\ llamada' = "get_ordenes_mes_actual"
    /\ UNCHANGED <<df, personal_data, excepcion, sesion>>

NextPlan ==
    \/ CargarFilaPlan
    \/ LlamarGetMonthlyPlanData
    \/ LlamarGetOrdenesMesActual

SpecPlan == InitPlan /\ [][NextPlan]_vars

----------------------------------------------------------------------------
(* Properties of the monthly plan classification *)

\* the table without its i-th row
SinFila(d, i) == SubSeq(d, 1, i - 1) \o SubSeq(d, i + 1, Len(d))

\* the raw status reads PENDIENTE once case-folded and trimmed
EsPendiente(f) == Strip(Upper(Str(f.STATUS))) = PENDIENTE

\* a planned-type record of the target year
EsPlanificada2026(f) ==
    /\ f.TIPO_DE_MTTO \in {"PREVENTIVO", "BASADO EN CONDICION", "MEJORA DE SISTEMA"}
    /\ f.FECHA_DE_INICIO.year = 2026

\* C4: in every month the four buckets add up to TOTAL_PLANIFICADAS.
C4_BucketsExhaustive ==
    llamada = "get_monthly_plan_data" =>
        \A mes \in 1..12 :
            ret[mes].ORDENES_CULMINADAS + ret[mes].ORDENES_EN_EJECUCION
              + ret[mes].ORDENES_RETRASADAS + ret[mes].ORDENES_PROYECTADAS
                = ret[mes].TOTAL_PLANIFICADAS

\* C5: a planned record of the target year that is PENDING and not delayed
\* (start >= today, or start < today and end >= today) is counted in
\* ORDENES_PROYECTADAS and TOTAL_PLANIFICADAS of the month of its start date:
\* without the record both counts of that month are one less.
C5_Projected ==
    llamada = "get_monthly_plan_data" =>
        \A i \in 1..Len(df) :
            LET f == df[i]
                mes == f.FECHA_DE_INICIO.month
                sin == get_monthly_plan_data(SinFila(df, i), 2026, hoy)
            IN  ( /\ EsPlanificada2026(f)
                  /\ EsPendiente(f)
                  /\ \/ Ordinal(f.FECHA_DE_INICIO) >= Ordinal(hoy)
                     \/ /\ Ordinal(f.FECHA_DE_INICIO) < Ordinal(hoy)
                        /\ Ordinal(f.FECHA_DE_FIN) >= Ordinal(hoy) )
                => /\ ret[mes].ORDENES_PROYECTADAS = sin[mes].ORDENES_PROYECTADAS + 1
                   /\ ret[mes].TOTAL_PLANIFICADAS = sin[mes].TOTAL_PLANIFICADAS + 1

\* C6: a planned record of the target year that is PENDING with start < today
\* and end < today is counted in ORDENES_RETRASADAS of the month of its start
\* date and in no other bucket: without the record ORDENES_RETRASADAS and
\* TOTAL_PLANIFICADAS of that month are one less and every other count of
\* every month is the same.
C6_Delayed ==
    llamada = "get_monthly_plan_data" =>
        \A i \in 1..Len(df) :
            LET f == df[i]
                mes == f.FECHA_DE_INICIO.month
                sin == get_monthly_plan_data(SinFila(df, i), 2026, hoy)
            IN  ( /\ EsPlanificada2026(f)
                  /\ EsPendiente(f)
                  /\ Ordinal(f.FECHA_DE_INICIO) < Ordinal(hoy)
                  /\ Ordinal(f.FECHA_DE_FIN) < Ordinal(hoy) )
                => /\ ret[mes].ORDENES_RETRASADAS = sin[mes].ORDENES_RETRASADAS + 1
                   /\ ret[mes].TOTAL_PLANIFICADAS = sin[mes].TOTAL_PLANIFICADAS + 1
                   /\ \A m \in 1..12 :
                        /\ ret[m].ORDENES_CULMINADAS = sin[m].ORDENES_CULMINADAS
                        /\ ret[m].ORDENES_EN_EJECUCION = sin[m].ORDENES_EN_EJECUCION
                        /\ ret[m].ORDENES_PROYECTADAS = sin[m].ORDENES_PROYECTADAS
                        /\ m # mes =>
                            /\ ret[m].ORDENES_RETRASADAS = sin[m].ORDENES_RETRASADAS
                            /\ ret[m].TOTAL_PLANIFICADAS = sin[m].TOTAL_PLANIFICADAS

\* On 2026-01-10 a pending preventive order of 2026-01-01..03 was classified
\* next to another order, and January counts it as delayed.
C6_Witness ==
    /\ llamada = "get_monthly_plan_data"
    /\ hoy = Fecha(2026, 1, 10)
    /\ Len(df) = 2
    /\ \E i \in 1..2 :
          /\ df[i].TIPO_DE_MTTO = "PREVENTIVO"
          /\ df[i].STATUS = S_pendiente
          /\ df[i].FECHA_DE_INICIO = Fecha(2026, 1, 1)
          /\ df[i].FECHA_DE_FIN = Fecha(2026, 1, 3)
    /\ ret[1].ORDENES_RETRASADAS = 1
    /\ ret[1].TOTAL_PLANIFICADAS = 2

\* C7: the normalised status of every record, whatever its raw status, is one
\* of CULMINADO, EN PROCESO, PENDIENTE.
C7_StatusOneOfThree ==
    llamada \in {"get_monthly_plan_data", "get_ordenes_mes_actual"} =>
        \A i \in 1..Len(df) :
            StatusNormDe(df, df[i]) \in {CULMINADO, EN_PROCESO, PENDIENTE}

----------------------------------------------------------------------------
(* Properties of the weekly series and of the ratios *)

\* the records a weekly aggregator builds its buckets from
EnAlcance(f) ==
    CASE llamada = "get_weekly_data" -> f.PRODUCCION_AFECTADA = "SI"
      [] llamada = "get_weekly_emergency_data" ->
            f.TIPO_DE_MTTO = "CORRECTIVO DE EMERGENCIA"
      [] OTHER -> TRUE

\* C8: the buckets of two records whose start dates lie in different ISO weeks
\* come in chronological order, the earlier week first.
C8_WeeklyOrder ==
    llamada \in {"get_weekly_data", "get_weekly_technician_hours",
                 "get_weekly_emergency_data"} =>
        \A i, j \in 1..Len(df) :
            ( /\ EnAlcance(df[i]) /\ EnAlcance(df[j])
              /\ Ordinal(df[i].FECHA_DE_INICIO) < Ordinal(df[j].FECHA_DE_INICIO)
              /\ IsoCalendar(df[i].FECHA_DE_INICIO) # IsoCalendar(df[j].FECHA_DE_INICIO) )
            => \A a, b \in 1..Len(ret) :
                  ( /\ ret[a].SEMANA_STR = SEMANA_STR(df[i])
                    /\ ret[b].SEMANA_STR = SEMANA_STR(df[j]) ) => a < b

\* a ratio that is finite, and 0 when its denominator is 0
RazonSana(x, denominador) ==
    /\ EsFinito(x)
    /\ denominador = 0 => x = Ent(0)

\* C9: every ratio the aggregators return is 0 when its denominator is 0, and
\* none is NaN or infinite.
C9_NoNaNNoInf ==
    /\ (llamada = "calculate_metrics" /\ ret # <<>>) =>
          /\ RazonSana(ret.disponibilidad, ret.td)
          /\ RazonSana(ret.indisponibilidad, ret.td)
          /\ RazonSana(ret.mantenibilidad, ret.td)
          /\ RazonSana(ret.mtbf, ret.total_fallas)
          /\ RazonSana(ret.mttf, ret.total_fallas)
          /\ RazonSana(ret.mttr, ret.total_fallas)
    /\ (llamada = "calculate_reliability_metrics" /\ ret # <<>>) =>
          /\ RazonSana(ret.mtbf_emergency, ret.total_fallas_emergency)
          /\ RazonSana(ret.mttr_emergency, ret.total_fallas_emergency)
          /\ RazonSana(ret.mttf_emergency, ret.total_fallas_emergency)
          /\ RazonSana(ret.mantenibilidad_emergency, ret.td)
    /\ llamada = "get_weekly_data" =>
          \A a \in 1..Len(ret) : RazonSana(ret[a].DISPO_SEMANAL, ret[a].TDISPONIBLE)
    /\ llamada = "get_weekly_emergency_data" =>
          \A a \in 1..Len(ret) :
              RazonSana(ret[a].MTTR_SEMANAL, ret[a].NUM_ORDENES_EMERGENCIA)
    /\ llamada = "get_monthly_plan_data" =>
          \A mes \in 1..12 :
              RazonSana(ret[mes].CUMPLIMIENTO_PCT, ret[mes].TOTAL_PLANIFICADAS)

----------------------------------------------------------------------------
(* Properties of the means of calculate_metrics *)

\* x = a / b for a float x and integers a, b with b > 0
EsCociente(x, a, b) == x.clase = "fin" /\ x.d > 0 /\ x.n * b = a * x.d

\* C11: total_fallas is the number of records with PRODUCCION_AFECTADA = 'SI';
\* mtbf = td/total_fallas, mttf = to/total_fallas, mttr = tr/total_fallas, and
\* all three are 0 when total_fallas = 0.
C11_Means ==
    (llamada = "calculate_metrics" /\ df # <<>>) =>
        LET n == Cardinality({i \in 1..Len(df) : df[i].PRODUCCION_AFECTADA = "SI"})
        IN  /\ ret.total_fallas = n
            /\ n > 0 => /\ EsCociente(ret.mtbf, ret.td, n)
                        /\ EsCociente(ret.mttf, ret.to, n)
                        /\ EsCociente(ret.mttr, ret.tr, n)
            /\ n = 0 => /\ ret.mtbf = Ent(0)
                        /\ ret.mttf = Ent(0)
                        /\ ret.mttr = Ent(0)

\* Two records with production affected, repair times 30 and 45: the mean
\* time to repair is 37.5.
C11_Witness ==
    /\ llamada = "calculate_metrics"
    /\ Len(df) = 2
    /\ df[1].PRODUCCION_AFECTADA = "SI" /\ df[1].TR_MIN = Num(30)
    /\ df[2].PRODUCCION_AFECTADA = "SI" /\ df[2].TR_MIN = Num(45)
    /\ ret.total_fallas = 2
    /\ ret.mttr = Fin(75, 2)

----------------------------------------------------------------------------
(* Properties of calculate_reliability_metrics *)

\* the records of d with TIPO DE MTTO = 'CORRECTIVO DE EMERGENCIA'
SoloEmergencia(d) ==
    SelectSeq(d, LAMBDA f : f.TIPO_DE_MTTO = "CORRECTIVO DE EMERGENCIA")

\* C12: every value calculate_reliability_metrics returns is computed from the
\* emergency-corrective records only, so the table without its records of
\* other types gives the same result; the number of emergency records with
\* production stoppage is a field of its own.
C12_EmergencyOnly ==
    llamada = "calculate_reliability_metrics" =>
        /\ ret = calculate_reliability_metrics(SoloEmergencia(df))
        /\ ret # <<>> =>
              ret.total_fallas_emergency_con_parada =
                  Cardinality({i \in 1..Len(df) :
                      /\ df[i].TIPO_DE_MTTO = "CORRECTIVO DE EMERGENCIA"
                      /\ df[i].PRODUCCION_AFECTADA = "SI"})

----------------------------------------------------------------------------
(* More text operations: Python's order of str, split() and join()           *)

\* the characters of the model in the order of their code points
Ascii ==
    <<" ", "$", "%", "&", ",", "-", "/">> \o
    <<"0","1","2","3","4","5","6","7","8","9">> \o <<";">> \o
    Mayusculas \o <<"\\", "_">> \o Minusculas \o <<"|">>

Codigo(c) == CHOOSE i \in 1..Len(Ascii) : Ascii[i] = c

\* a < b for two str
RECURSIVE MenorTexto(_, _)
MenorTexto(a, b) ==
    IF b = <<>> THEN FALSE
    ELSE IF a = <<>> THEN TRUE
    ELSE IF Head(a) = Head(b) THEN MenorTexto(Tail(a), Tail(b))
    ELSE Codigo(Head(a)) < Codigo(Head(b))

\* s.split(): the maximal runs of non-space characters, in order
RECURSIVE SplitEspacios(_)
SplitEspacios(s) ==
    LET noesp == {i \in 1..Len(s) : ~IsSpace(s[i])}
    IN  IF noesp = {} THEN <<>>
        ELSE LET ini == Min(noesp)
                 esp == {i \in ini..Len(s) : IsSpace(s[i])}
                 fin == IF esp = {} THEN Len(s) + 1 ELSE Min(esp)
             IN  <<SubSeq(s, ini, fin - 1)>> \o SplitEspacios(SubSeq(s, fin, Len(s)))

\* sep.join(piezas)
RECURSIVE Join(_, _)
Join(sep, piezas) ==
    IF piezas = <<>> THEN <<>>
    ELSE IF Len(piezas) = 1 THEN piezas[1]
    ELSE piezas[1] \o sep \o Join(sep, Tail(piezas))

\* ' '.join(nombre.split()).upper()
nombre_normalizado(nombre) == Upper(Join(<<" ">>, SplitEspacios(nombre)))

\* the sum of a sequence of finite floats
RECURSIVE SumaFloat(_)
SumaFloat(q) == IF q = <<>> THEN Ent(0) ELSE Mas2(Head(q), SumaFloat(Tail(q)))

\* x >= y for two finite floats
NoMenor(x, y) == x.n * y.d >= y.n * x.d

\* the orders in which a finite set can be iterated
Permutaciones(S) ==
    {q \in [1..Cardinality(S) -> S] : \A i, j \in DOMAIN q : i # j => q[i] # q[j]}

----------------------------------------------------------------------------
(* calculate_overtime_costs                                                  *)
(* The order columns 'VALOR DE HORAS' and 'TIPO HORA EXTRA' are the fields   *)
(* VALOR_DE_HORAS and TIPO_HORA_EXTRA of a row.  Rates are numeric cells.    *)

T_APELLIDO == <<"A","P","E","L","L","I","D","O">>
T_NOMBRE == <<"N","O","M","B","R","E">>
T_TECNICO == <<"T","E","C","N","I","C","O">>
T_RESPONSABLE == <<"R","E","S","P","O","N","S","A","B","L","E">>
T_VALOR == <<"V","A","L","O","R">>
T_HORAS == <<"H","O","R","A","S">>
T_50 == <<"5","0">>
T_100 == <<"1","0","0">>
T_CINCUENTA == <<"C","I","N","C","U","E","N","T","A">>
T_CIEN == <<"C","I","E","N">>

\* personal_data.empty
PersonalVacio(p) == p.columnas = <<>> \/ p.filas = <<>>

\* [str(col).strip().upper() for col in personal_data.columns]
columnas_limpias(p) == [i \in 1..Len(p.columnas) |-> Upper(Strip(p.columnas[i]))]

\* index of the column of the technician's name among the cleaned columns
nombre_col(cols) ==
    LET a == {i \in 1..Len(cols) :
                Contains(cols[i], T_APELLIDO) /\ Contains(cols[i], T_NOMBRE)}
        b == {i \in 1..Len(cols) :
                \/ Contains(cols[i], T_NOMBRE)
                \/ Contains(cols[i], T_TECNICO)
                \/ Contains(cols[i], T_RESPONSABLE)}
    IN  IF a # {} THEN Min(a) ELSE IF b # {} THEN Min(b) ELSE 1

EsValorHoras50(col) ==
    Contains(col, T_VALOR) /\ Contains(col, T_HORAS) /\ Contains(col, T_50)
EsValorHoras100(col) ==
    ~EsValorHoras50(col)
    /\ Contains(col, T_VALOR) /\ Contains(col, T_HORAS) /\ Contains(col, T_100)

\* index of the column of the 50% rate, 0 for None: the last column named
\* VALOR..HORAS..50, else the first with '50' or 'CINCUENTA'
costo_50_col(cols) ==
    LET a == {i \in 1..Len(cols) : EsValorHoras50(cols[i])}
        b == {i \in 1..Len(cols) :
                Contains(cols[i], T_50) \/ Contains(cols[i], T_CINCUENTA)}
    IN  IF a # {} THEN Max(a) ELSE IF b # {} THEN Min(b) ELSE 0

costo_100_col(cols) ==
    LET a == {i \in 1..Len(cols) : EsValorHoras100(cols[i])}
        b == {i \in 1..Len(cols) :
                Contains(cols[i], T_100) \/ Contains(cols[i], T_CIEN)}
    IN  IF a # {} THEN Max(a) ELSE IF b # {} THEN Min(b) ELSE 0

\* the rate read from a cell of the personnel table: 0 when there is no such
\* column or the cell is missing
costo_de(fila, col) ==
    IF col = 0 THEN 0 ELSE IF notna(fila[col]) THEN fila[col][1] ELSE 0

\* costos_tecnicos: normalised name -> rates; a later row of the same name
\* replaces an earlier one
costos_tecnicos(p) ==
    LET cols == columnas_limpias(p)
        nc == nombre_col(cols)
        nombre(i) == Strip(Str(p.filas[i][nc]))
        validas == {i \in 1..Len(p.filas) : nombre(i) # <<>>}
        clave(i) == nombre_normalizado(nombre(i))
    IN  [k \in {clave(i) : i \in validas} |->
            LET i == Max({j \in validas : clave(j) = k})
            IN  [ c50 |-> costo_de(p.filas[i], costo_50_col(cols)),
                  c100 |-> costo_de(p.filas[i], costo_100_col(cols)) ]]

\* a cell of an optional text column of the orders holds a value
TieneValor(row, c) == c \in DOMAIN row /\ row[c] # NaNTexto

tipo_hora(row) ==
    IF TieneValor(row, "VALOR_DE_HORAS")
    THEN LET v == Upper(Str(row.VALOR_DE_HORAS))
         IN  IF Contains(v, T_100) \/ Contains(v, T_CIEN) THEN "100%" ELSE "50%"
    ELSE IF TieneValor(row, "TIPO_HORA_EXTRA")
    THEN IF Contains(Upper(Str(row.TIPO_HORA_EXTRA)), T_100) THEN "100%" ELSE "50%"
    ELSE "50%"

\* One entry of costos_detallados, with the sets the row is added to.  `orden`
\* is the order in which the set tecnicos_personal is iterated.
costo_detallado(row, costos, orden) ==
    LET nombre_tecnico == Strip(Str(row.RESPONSABLE))
        norm == nombre_normalizado(nombre_tecnico)
        tipo == tipo_hora(row)
        tarifa(k) == IF tipo = "50%" THEN costos[k].c50 ELSE costos[k].c100
        exacto == norm \in DOMAIN costos
        parciales == {i \in 1..Len(orden) :
                        Contains(orden[i], norm) \/ Contains(norm, orden[i])}
        costo_por_hora ==
            IF exacto THEN tarifa(norm)
            ELSE IF parciales # {} THEN tarifa(orden[Min(parciales)])
            ELSE 0
        horas_extra == Div(row.H_EXTRA_MIN[1], 60)
    IN  [ SEMANA_STR |-> SEMANA_STR(row),
          TECNICO |-> nombre_tecnico,
          TECNICO_NORMALIZADO |-> norm,
          TIPO_HORA |-> tipo,
          HORAS_EXTRA |-> horas_extra,
          COSTO_POR_HORA |-> costo_por_hora,
          COSTO_TOTAL |-> Por(horas_extra, costo_por_hora),
          H_EXTRA_MIN |-> row.H_EXTRA_MIN[1],
          encontrado |-> exacto \/ parciales # {},
          no_encontrado |-> ~exacto,
          indeterminado |-> ~TieneValor(row, "VALOR_DE_HORAS")
                            /\ ~TieneValor(row, "TIPO_HORA_EXTRA") ]

\* the rows kept for the costs: expanded, with overtime and a responsible
df_costs(d) ==
    SelectSeq(separar_tecnicos(d),
              LAMBDA f : /\ notna(f.H_EXTRA_MIN) /\ f.H_EXTRA_MIN[1] > 0
                         /\ f.RESPONSABLE # NaNTexto)

\* a set of text keys as the sequence groupby leaves them: sorted
RECURSIVE ClavesOrdenadas(_)
ClavesOrdenadas(S) ==
    IF S = {} THEN <<>>
    ELSE LET k == CHOOSE x \in S : \A y \in S : x = y \/ MenorTexto(x, y)
         IN  <<k>> \o ClavesOrdenadas(S \ {k})

\* groupby(['SEMANA_STR', 'TECNICO']) of a detail table whose hours are in
\* column `horas`: one row per week and technician, weeks and names sorted
costos_semanales(det, horas) ==
    LET semanas == ClavesOrdenadas({det[i].SEMANA_STR : i \in 1..Len(det)})
        de(sem) == SelectSeq(det, LAMBDA r : r.SEMANA_STR = sem)
        grupo(sem, tec) == SelectSeq(de(sem), LAMBDA r : r.TECNICO = tec)
        cubo(sem, tec) ==
            LET g == grupo(sem, tec)
            IN  [ SEMANA_STR |-> sem, TECNICO |-> tec,
                  COSTO_TOTAL |-> SumaFloat([i \in 1..Len(g) |-> g[i].COSTO_TOTAL]),
                  HORAS_EXTRA |-> SumaFloat([i \in 1..Len(g) |-> g[i][horas]]),
                  H_EXTRA_MIN |-> SumaSec([i \in 1..Len(g) |-> g[i].H_EXTRA_MIN]) ]
        cubos(sem) ==
            LET tecs == ClavesOrdenadas({de(sem)[i].TECNICO : i \in 1..Len(de(sem))})
            IN  [j \in 1..Len(tecs) |-> cubo(sem, tecs[j])]
        RECURSIVE todas(_)
        todas(n) == IF n > Len(semanas) THEN <<>>
                    ELSE cubos(semanas[n]) \o todas(n + 1)
    IN  todas(1)

\* groupby('TECNICO'), before the final sort: one row per technician
costos_acumulados(det, horas) ==
    { LET g == SelectSeq(det, LAMBDA r : r.TECNICO = tec)
      IN  [ TECNICO |-> tec,
            COSTO_TOTAL |-> SumaFloat([i \in 1..Len(g) |-> g[i].COSTO_TOTAL]),
            HORAS_EXTRA |-> SumaFloat([i \in 1..Len(g) |-> g[i][horas]]),
            H_EXTRA_MIN |-> SumaSec([i \in 1..Len(g) |-> g[i].H_EXTRA_MIN]) ] :
      tec \in {det[i].TECNICO : i \in 1..Len(det)} }

\* the orders of an ascending sort
OrdenesAscendentes(cubos, campo) ==
    {q \in Permutaciones(cubos) :
        \A i, j \in DOMAIN q : i < j => NoMenor(q[j][campo], q[i][campo])}

\* every order sort_values(campo, ascending=False) may leave the rows in: the
\* sort is not stable, rows of equal value come in any order
OrdenesDescendentes(cubos, campo) ==
    {q \in Permutaciones(cubos) :
        \A i, j \in DOMAIN q : i < j => NoMenor(q[i][campo], q[j][campo])}

Resultado(weekly, accumulated, mensaje) ==
    [weekly_costs |-> weekly, accumulated_costs |-> accumulated, mensaje |-> mensaje]

SoloTexto(t) ==
    [ texto |-> t, encontrados |-> 0, no_encontrados |-> 0,
      tipo_indeterminado |-> 0, total_costo |-> Ent(0), total_horas |-> Ent(0) ]

\* the function reaches the line that renames the columns of personal_data
LlegaALimpiarColumnas(d, p) ==
    /\ d # <<>>
    /\ TieneColumna(d, "RESPONSABLE")
    /\ df_costs(d) # <<>>
    /\ ~PersonalVacio(p)

\* the results of the branch without personnel data, for the table df_costs c
sin_personal(c) ==
    LET det == [i \in 1..Len(c) |->
                  [ SEMANA_STR |-> SEMANA_STR(c[i]),
                    TECNICO |-> c[i].RESPONSABLE,
                    COSTO_TOTAL |-> Ent(0),
                    H_EXTRA_HORAS |-> Div(c[i].H_EXTRA_MIN[1], 60),
                    H_EXTRA_MIN |-> c[i].H_EXTRA_MIN[1] ]]
        sinMin(r) == [x \in (DOMAIN r \ {"H_EXTRA_MIN", "HORAS_EXTRA"}) \cup {"H_EXTRA_HORAS"} |->
                        IF x = "H_EXTRA_HORAS" THEN r.HORAS_EXTRA ELSE r[x]]
        sinMinTabla(t) == [i \in 1..Len(t) |-> sinMin(t[i])]
    IN  { Resultado(sinMinTabla(costos_semanales(det, "H_EXTRA_HORAS")),
                    sinMinTabla(q),
                    SoloTexto("Sin datos de personal - mostrando solo horas")) :
          q \in OrdenesDescendentes(costos_acumulados(det, "H_EXTRA_HORAS"),
                                    "HORAS_EXTRA") }

\* the list costos_detallados with the marks of the loop, for the rows
\* con_nombre of df_costs that have a name
costos_detallados(con_nombre, costos, orden) ==
    [i \in 1..Len(con_nombre) |-> costo_detallado(con_nombre[i], costos, orden)]

\* the columns of the table made from costos_detallados
df_costos(todo) ==
    LET columnas == {"SEMANA_STR", "TECNICO", "TECNICO_NORMALIZADO", "TIPO_HORA",
                     "HORAS_EXTRA", "COSTO_POR_HORA", "COSTO_TOTAL", "H_EXTRA_MIN"}
    IN  [i \in 1..Len(todo) |-> [x \in columnas |-> todo[i][x]]]

\* the message of a successful calculation for the accumulated table q
mensaje_exitoso(todo, q) ==
    LET de(campo) == {todo[i].TECNICO : i \in {j \in 1..Len(todo) : todo[j][campo]}}
    IN  [ texto |-> "Calculo exitoso",
          encontrados |-> Cardinality(de("encontrado")),
          no_encontrados |-> Cardinality(de("no_encontrado")),
          tipo_indeterminado |->
              Cardinality({i \in 1..Len(todo) : todo[i].indeterminado}),
          total_costo |-> SumaFloat([i \in 1..Len(q) |-> q[i].COSTO_TOTAL]),
          total_horas |-> SumaFloat([i \in 1..Len(q) |-> q[i].HORAS_EXTRA]) ]

\* the results of the branch with personnel data, for the list todo
con_personal(todo, det) ==
    IF det = <<>>
    THEN {Resultado(<<>>, <<>>,
            SoloTexto("No se pudieron calcular costos (lista vacia)"))}
    ELSE { Resultado(costos_semanales(det, "HORAS_EXTRA"), q, mensaje_exitoso(todo, q)) :
           q \in OrdenesDescendentes(costos_acumulados(det, "HORAS_EXTRA"),
                                     "COSTO_TOTAL") }

\* the rows of a table that have a value in RESPONSABLE
ConNombre(c) == SelectSeq(c, LAMBDA f : Strip(Str(f.RESPONSABLE)) # <<>>)

\* The set of results calculate_overtime_costs may return when the set
\* tecnicos_personal is iterated in the order `orden`.
calculate_overtime_costs(d, p, orden) ==
    IF d = <<>>
    THEN {Resultado(<<>>, <<>>, SoloTexto("No hay datos filtrados"))}
    ELSE IF SelectSeq(separar_tecnicos(d),
                      LAMBDA f : notna(f.H_EXTRA_MIN) /\ f.H_EXTRA_MIN[1] > 0) = <<>>
    THEN {Resultado(<<>>, <<>>,
            SoloTexto("No hay registros con horas extras (H_EXTRA_MIN > 0)"))}
    ELSE IF ~TieneColumna(d, "RESPONSABLE")
    THEN {Resultado(<<>>, <<>>,
            SoloTexto("No existe la columna 'RESPONSABLE' en los datos"))}
    ELSE IF df_costs(d) = <<>>
    THEN {Resultado(<<>>, <<>>,
            SoloTexto("No hay registros con responsable asignado"))}
    ELSE IF PersonalVacio(p)
    THEN sin_personal(df_costs(d))
    ELSE con_personal(
            costos_detallados(ConNombre(df_costs(d)), costos_tecnicos(p), orden),
            df_costos(costos_detallados(ConNombre(df_costs(d)), costos_tecnicos(p), orden)))

----------------------------------------------------------------------------
(* get_accumulated_technician_hours *)

\* the set of tables get_accumulated_technician_hours may return
get_accumulated_technician_hours(d) ==
    IF d = <<>> \/ ~TieneColumna(d, "RESPONSABLE") THEN {<<>>}
    ELSE
    LET df_separado == separar_tecnicos(d)
        tecnicos == {df_separado[i].RESPONSABLE : i \in 1..Len(df_separado)} \ {NaNTexto}
        cubo(tec) ==
            LET g == SelectSeq(df_separado, LAMBDA f : f.RESPONSABLE = tec)
                tr == SumCol(g, "TR_MIN")
                hx == SumCol(g, "H_EXTRA_MIN")
            IN  [ RESPONSABLE |-> tec, TR_MIN |-> tr, H_EXTRA_MIN |-> hx,
                  TR_HORAS |-> Div(tr, 60), H_EXTRA_HORAS |-> Div(hx, 60) ]
    IN  OrdenesDescendentes({cubo(tec) : tec \in tecnicos}, "TR_HORAS")

----------------------------------------------------------------------------
(* Overtime costs: orders with overtime and the personnel sheet.  Rates are  *)
(* in cents.                                                                 *)

R_JuanPerez == <<"J","u","a","n"," ","P","e","r","e","z">>
R_Eva == <<"E","v","a">>
R_JuanPerezComaEva == <<"J","u","a","n"," ","P","e","r","e","z",","," ","E","v","a">>
S_100 == <<"1","0","0","%">>

\* <<RESPONSABLE, H_EXTRA_MIN, FECHA_DE_INICIO, TIPO HORA EXTRA>> of an order
OrdenesCostos ==
    { <<R_JuanPerez, 120, Fecha(2026, 1, 5), NaNTexto>>,
      <<R_JuanPerez, 30, Fecha(2026, 1, 12), S_100>>,
      <<R_Ana, 120, Fecha(2026, 1, 5), NaNTexto>>,
      <<R_Eva, 120, Fecha(2026, 1, 5), NaNTexto>>,
      <<R_Eva, 0, Fecha(2026, 1, 5), NaNTexto>>,
      <<R_JuanPerezComaEva, 90, Fecha(2026, 1, 12), NaNTexto>>,
      <<NaNTexto, 120, Fecha(2026, 1, 5), NaNTexto>> }

FilasCostos ==
    { [ OT |-> 0, RESPONSABLE |-> o[1], TR_MIN |-> Num(o[2] + 60),
        H_EXTRA_MIN |-> Num(o[2]), FECHA_DE_INICIO |-> o[3],
        TIPO_HORA_EXTRA |-> o[4] ] : o \in OrdenesCostos }

C_ApellidoYNombre == <<"A","P","E","L","L","I","D","O"," ","Y"," ","N","O","M","B","R","E">>
C_Valor50 == <<"V","A","L","O","R"," ","D","E"," ","H","O","R","A","S"," ","A","L"," ","5","0","%">>
C_Valor100 == <<"V","A","L","O","R"," ","D","E"," ","H","O","R","A","S"," ","A","L"," ","1","0","0","%">>
C_apellido_y_nombre == <<" ","A","p","e","l","l","i","d","o"," ","y"," ","N","o","m","b","r","e">>
C_valor50 == <<"V","a","l","o","r"," ","d","e"," ","h","o","r","a","s"," ","a","l"," ","5","0","%">>
C_valor100 == <<"V","a","l","o","r"," ","d","e"," ","h","o","r","a","s"," ","a","l"," ","1","0","0","%">>
N_JUAN_PEREZ == <<"J","U","A","N"," ","P","E","R","E","Z">>
N_AnaLopez == <<"A","n","a"," "," ","L","o","p","e","z">>
N_AnaGil == <<"A","n","a"," ","G","i","l">>

\* the personnel tables given to calculate_overtime_costs: none; one with the
\* column names as load_personal_data_from_google_sheets leaves them; one
\* with the column names as typed in the sheet (the function cleans them
\* itself), two people called Ana and a missing 100% rate
PersonalTablas ==
    { SinPersonal,
      [ columnas |-> <<C_ApellidoYNombre, C_Valor50, C_Valor100>>,
        filas |-> << <<N_JUAN_PEREZ, Num(344), Num(688)>>,
                     <<N_AnaLopez, Num(400), Num(800)>> >> ],
      [ columnas |-> <<C_apellido_y_nombre, C_valor50, C_valor100>>,
        filas |-> << <<N_JUAN_PEREZ, Num(344), NaN>>,
                     <<N_AnaLopez, Num(400), Num(800)>>,
                     <<N_AnaGil, Num(500), Num(1000)>> >> ] }

InitCostos ==
    /\ df = <<>>
    /\ hoy = HoyFijo
    /\ llamada = ""
    /\ ret = <<>>
    /\ personal_data \in PersonalTablas
    /\ excepcion = ""
    /\ SinSesion

CargarFilaCostos ==
    /\ llamada = ""
    /\ Len(df) < MaxFilas
    /\ \E r \in FilasCostos : df' = Append(df, [r EXCEPT !.OT = Len(df) + 1])
    /\ UNCHANGED <<hoy, llamada, ret, personal_data, excepcion, sesion>>

\* calculate_overtime_costs(filtered_data, personal_data): the call returns
\* one of its possible results and leaves personal_data with cleaned column
\* names when it gets as far as reading the personnel sheet.
LlamarCalculateOvertimeCosts ==
    /\ llamada = ""
    /\ llamada' = "calculate_overtime_costs"
    /\ \E orden \in Permutaciones(IF PersonalVacio(personal_data) THEN {}
                                  ELSE DOMAIN costos_tecnicos(personal_data)) :
          \E r \in calculate_overtime_costs(df, personal_data, orden) : ret' = r
    /\ personal_data' =
          IF LlegaALimpiarColumnas(df, personal_data)
          THEN [personal_data EXCEPT !.columnas = columnas_limpias(personal_data)]
          ELSE personal_data
    /\ UNCHANGED <<df, hoy, excepcion, sesion>>

LlamarGetAccumulatedTechnicianHours ==
    /\ llamada = ""
    /\ llamada' = "get_accumulated_technician_hours"
    /\ \E t \in get_accumulated_technician_hours(df) : ret' = t
    /\ UNCHANGED <<df, hoy, personal_data, excepcion, sesion>>

NextCostos ==
    \/ CargarFilaCostos
    \/ LlamarCalculateOvertimeCosts
    \/ LlamarGetAccumulatedTechnicianHours

SpecCostos == InitCostos /\ [][NextCostos]_vars

----------------------------------------------------------------------------
(* Properties of calculate_overtime_costs *)

\* the technician-expanded records with overtime and a responsible name
RegistrosConExtras(d) ==
    SelectSeq(separar_tecnicos(d),
              LAMBDA f : /\ f.H_EXTRA_MIN[1] > 0
                         /\ f.RESPONSABLE # NaNTexto
                         /\ Strip(f.RESPONSABLE) # <<>>)

\* the rows of the personnel table p (name, 50% rate, 100% rate) whose name
\* is that of technician t, upper-cased and with single spaces
FilasDePersonal(p, t) ==
    {i \in 1..Len(p.filas) :
        nombre_normalizado(Str(p.filas[i][1])) = nombre_normalizado(t)}

\* rate[technician][tier] of a record, 0 for a technician the table lacks
TarifaDeRegistro(p, f) ==
    LET filas == FilasDePersonal(p, f.RESPONSABLE)
        col == IF f.TIPO_HORA_EXTRA = S_100 THEN 3 ELSE 2
    IN  IF filas = {} THEN 0
        ELSE LET celda == p.filas[Max(filas)][col]
             IN  IF celda = NaN THEN 0 ELSE celda[1]

\* (H_EXTRA_MIN / 60) * rate summed over the records of technician t
CostoEsperado(p, regs, t) ==
    LET suyos == SelectSeq(regs, LAMBDA f : Strip(f.RESPONSABLE) = t)
    IN  SumaFloat([i \in 1..Len(suyos) |->
            Fin(suyos[i].H_EXTRA_MIN[1] * TarifaDeRegistro(p, suyos[i]), 60)])

Descendente(t, campo) ==
    \A i, j \in 1..Len(t) : i < j => NoMenor(t[i][campo], t[j][campo])

\* C14: when calculate_overtime_costs has overtime records to cost, the
\* accumulated table comes by descending COSTO_TOTAL; with an empty personnel
\* table every cost of both tables is 0, the accumulated table comes by
\* descending H_EXTRA_HORAS and the message is "Sin datos de personal -
\* mostrando solo horas".
C14_OutputOrder ==
    (llamada = "calculate_overtime_costs" /\ RegistrosConExtras(df) # <<>>) =>
        LET acc == ret.accumulated_costs
            sem == ret.weekly_costs
        IN  /\ acc # <<>>
            /\ Descendente(acc, "COSTO_TOTAL")
            /\ PersonalVacio(personal_data) =>
                  /\ \A i \in 1..Len(acc) : acc[i].COSTO_TOTAL = Ent(0)
                  /\ \A i \in 1..Len(sem) : sem[i].COSTO_TOTAL = Ent(0)
                  /\ Descendente(acc, "H_EXTRA_HORAS")
                  /\ ret.mensaje.texto = "Sin datos de personal - mostrando solo horas"
            /\ ~PersonalVacio(personal_data) =>
                  ret.mensaje.texto = "Calculo exitoso"

\* the call without personnel data returned two technicians with different
\* overtime hours
C14_Witness ==
    /\ llamada = "calculate_overtime_costs"
    /\ PersonalVacio(personal_data)
    /\ Len(ret.accumulated_costs) = 2
    /\ ret.accumulated_costs[1].H_EXTRA_HORAS # ret.accumulated_costs[2].H_EXTRA_HORAS

\* the call with personnel data returned two technicians with different costs
C14_ConCostos ==
    /\ llamada = "calculate_overtime_costs"
    /\ ~PersonalVacio(personal_data)
    /\ Len(ret.accumulated_costs) = 2
    /\ ret.accumulated_costs[1].COSTO_TOTAL # ret.accumulated_costs[2].COSTO_TOTAL

----------------------------------------------------------------------------
(* clean_and_prepare_data.  A row of the sheet as read_excel gives it: a     *)
(* cell of a duration column is a number, a text or blank; a cell of a date  *)
(* column is a date, a text or blank; a cell of an hour column is a time of  *)
(* day or blank.  The columns of the sheet with accented names are not       *)
(* carried by the rows of the model.                                         *)

Numero(n) == [tipo |-> "num", n |-> n, s |-> <<>>]
Texto(s) == [tipo |-> "texto", n |-> 0, s |-> s]
Blanco == [tipo |-> "nan", n |-> 0, s |-> <<>>]

FechaCelda(f) == [tipo |-> "fecha", f |-> f, s |-> <<>>]
FechaTexto(s) == [tipo |-> "texto", f |-> Fecha(1, 1, 1), s |-> s]
NaT == [tipo |-> "nat", f |-> Fecha(1, 1, 1), s |-> <<>>]

Hora(h, m) == [tipo |-> "hora", h |-> h, m |-> m]
SinHora == [tipo |-> "nan", h |-> 0, m |-> 0]

\* the rename of columns, for the columns with plain names
columnas_renombradas ==
    ("FECHA DE INICIO" :> "FECHA_DE_INICIO") @@
    ("FECHA DE FIN" :> "FECHA_DE_FIN") @@
    ("Tiempo Prog (min)" :> "TIEMPO_PROG_MIN") @@
    ("TIEMPO ESTIMADO DIARIO (min)" :> "TDISPONIBLE") @@
    ("TR (min)" :> "TR_MIN") @@
    ("TFC (min)" :> "TFC_MIN") @@
    ("TFS (min)" :> "TFS_MIN") @@
    ("h normal (min)" :> "H_NORMAL_MIN") @@
    ("h extra (min)" :> "H_EXTRA_MIN") @@
    ("HORA INICIO" :> "HORA_INICIO") @@
    ("HORA FINAL" :> "HORA_FINAL") @@
    ("HORA DE ARRANQUE" :> "HORA_ARRANQUE")

\* row r after df.rename(columns=...)
rename(r) ==
    LET nuevo(c) == IF c \in DOMAIN columnas_renombradas
                    THEN columnas_renombradas[c] ELSE c
        viejo(c) == CHOOSE k \in DOMAIN r : nuevo(k) = c
    IN  [c \in {nuevo(k) : k \in DOMAIN r} |-> r[viejo(c)]]

\* row r after the columns EQUIPO, CONJUNTO and RESPONSABLE take the values of
\* the columns 'EQUIPO NOMBRE', 'CONJUNTO NOMBRE' and 'RESPONSABLE NOMBRE'
con_nombres(r) ==
    LET de(col, r0) == IF (col \o " NOMBRE") \in DOMAIN r0
                       THEN (col :> r0[col \o " NOMBRE"]) @@ r0 ELSE r0
    IN  de("RESPONSABLE", de("CONJUNTO", de("EQUIPO", r)))

\* int(s) for a text of digits
RECURSIVE Entero(_)
Entero(s) ==
    IF s = <<>> THEN 0
    ELSE Entero(SubSeq(s, 1, Len(s) - 1)) * 10 + (Codigo(s[Len(s)]) - Codigo("0"))

\* the text is a date written YYYY-MM-DD
EsFechaISO(s) ==
    /\ Len(s) = 10
    /\ s[5] = "-" /\ s[8] = "-"
    /\ \A i \in {1, 2, 3, 4, 6, 7, 9, 10} : IsDigit(s[i])
    /\ Entero(SubSeq(s, 1, 4)) >= 1
    /\ Entero(SubSeq(s, 6, 7)) \in 1..12
    /\ Entero(SubSeq(s, 9, 10)) \in
          1..DiasDelMes(Entero(SubSeq(s, 1, 4)), Entero(SubSeq(s, 6, 7)))

\* pd.to_datetime of a cell raises: a text that is no date.  (The texts of
\* the model are dates written YYYY-MM-DD or words without digits.)
to_datetime_raises(c) == c.tipo = "texto" /\ ~EsFechaISO(c.s)

\* pd.to_datetime of a cell that does not raise: blank becomes NaT
to_datetime(c) ==
    IF c.tipo = "texto"
    THEN FechaCelda(Fecha(Entero(SubSeq(c.s, 1, 4)), Entero(SubSeq(c.s, 6, 7)),
                          Entero(SubSeq(c.s, 9, 10))))
    ELSE IF c.tipo = "fecha" THEN c
    ELSE NaT

\* calcular_duracion_minutos: the minutes from (fecha_inicio, hora_inicio) to
\* (fecha_fin, hora_fin), 0 when negative and 0 when a date is NaT or an hour
\* is blank (strftime or the parse raises inside the try)
calcular_duracion_minutos(fecha_inicio, hora_inicio, fecha_fin, hora_fin) ==
    IF \/ fecha_inicio.tipo # "fecha" \/ fecha_fin.tipo # "fecha"
       \/ hora_inicio.tipo # "hora" \/ hora_fin.tipo # "hora"
    THEN 0
    ELSE LET datetime_inicio ==
                 Ordinal(fecha_inicio.f) * 1440 + hora_inicio.h * 60 + hora_inicio.m
             datetime_fin ==
                 Ordinal(fecha_fin.f) * 1440 + hora_fin.h * 60 + hora_fin.m
             duracion == datetime_fin - datetime_inicio
         IN  IF duracion > 0 THEN duracion ELSE 0

\* the text is an integer literal
EsEnteroTexto(s) ==
    LET cifras == IF s # <<>> /\ Head(s) = "-" THEN Tail(s) ELSE s
    IN  cifras # <<>> /\ \A i \in 1..Len(cifras) : IsDigit(cifras[i])

\* pd.to_numeric(errors='coerce').fillna(0) of a cell
to_numeric_fillna(c) ==
    IF c.tipo = "num" THEN c
    ELSE IF c.tipo = "texto" /\ EsEnteroTexto(c.s)
    THEN (IF Head(c.s) = "-" THEN Numero(0 - Entero(Tail(c.s)))
          ELSE Numero(Entero(c.s)))
    ELSE Numero(0)

numeric_columns ==
    {"TR_MIN", "TFC_MIN", "TFS_MIN", "TDISPONIBLE", "TIEMPO_PROG_MIN", "H_EXTRA_MIN"}

\* the exception clean_and_prepare_data raises on a table with rows, "" if none
clean_excepcion(d) ==
    LET a == [i \in 1..Len(d) |-> con_nombres(rename(d[i]))]
    IN  IF ~TieneColumna(a, "FECHA_DE_INICIO") THEN "KeyError"
        ELSE IF \E i \in 1..Len(a) : to_datetime_raises(a[i].FECHA_DE_INICIO)
        THEN "ValueError"
        ELSE IF ~TieneColumna(a, "FECHA_DE_FIN") THEN "KeyError"
        ELSE IF \E i \in 1..Len(a) : to_datetime_raises(a[i].FECHA_DE_FIN)
        THEN "ValueError"
        ELSE IF ~TieneColumna(a, "HORA_INICIO") \/ ~TieneColumna(a, "HORA_FINAL")
        THEN "KeyError"
        ELSE ""

\* one row of the table clean_and_prepare_data returns
fila_limpia(r) ==
    LET a == con_nombres(rename(r))
        b == [a EXCEPT !.FECHA_DE_INICIO = to_datetime(@),
                       !.FECHA_DE_FIN = to_datetime(@)]
        TR_MIN_CALCULADO ==
            Numero(calcular_duracion_minutos(b.FECHA_DE_INICIO, b.HORA_INICIO,
                                             b.FECHA_DE_FIN, b.HORA_FINAL))
        TR_MIN ==
            IF "TR_MIN" \in DOMAIN b
            THEN (IF b.TR_MIN.tipo = "nan" \/ (b.TR_MIN.tipo = "num" /\ b.TR_MIN.n = 0)
                  THEN TR_MIN_CALCULADO ELSE b.TR_MIN)
            ELSE TR_MIN_CALCULADO
        c == ("TR_MIN_CALCULADO" :> TR_MIN_CALCULADO) @@ ("TR_MIN" :> TR_MIN) @@ b
    IN  [col \in DOMAIN c |->
            IF col \in numeric_columns THEN to_numeric_fillna(c[col]) ELSE c[col]]

\* the table clean_and_prepare_data returns when it does not raise
clean_and_prepare_data(d) == [i \in 1..Len(d) |-> fila_limpia(d[i])]

----------------------------------------------------------------------------
(* The sheet DATAMTTO and its cleaning, once on the sheet and once more on   *)
(* the table the first cleaning returned.                                    *)

S_2026_01_05 == <<"2","0","2","6","-","0","1","-","0","5">>
\* "s/d" (sin dato): a text that read_excel keeps as text and that is no number
S_sd == <<"s","/","d">>
S_45 == <<"4","5">>
N_AnaLopezNombre == <<"A","n","a"," ","L","o","p","e","z">>

\* <<FECHA DE INICIO, FECHA DE FIN, HORA INICIO, HORA FINAL, TR (min),
\*   TFS (min), h normal (min)>> of a row of the sheet
CeldasCrudas ==
    { <<FechaCelda(Fecha(2026, 1, 5)), FechaCelda(Fecha(2026, 1, 5)),
        Hora(8, 0), Hora(9, 30), Numero(30), Numero(10), Numero(60)>>,
      <<FechaCelda(Fecha(2026, 1, 5)), FechaCelda(Fecha(2026, 1, 6)),
        Hora(8, 0), Hora(9, 30), Blanco, Blanco, Blanco>>,
      <<FechaCelda(Fecha(2026, 1, 5)), FechaCelda(Fecha(2026, 1, 5)),
        Hora(9, 30), Hora(8, 0), Numero(0), Numero(0 - 15), Numero(60)>>,
      <<FechaTexto(S_2026_01_05), FechaCelda(Fecha(2026, 1, 5)),
        Hora(8, 0), Hora(9, 30), Texto(S_sd), Texto(S_45), Texto(S_sd)>>,
      <<FechaTexto(S_pendiente), FechaCelda(Fecha(2026, 1, 5)),
        Hora(8, 0), Hora(9, 30), Numero(30), Numero(10), Numero(60)>>,
      <<NaT, NaT, Hora(8, 0), SinHora, Blanco, Numero(10), Numero(60)>> }

FilasCrudas ==
    { ("OT" :> 0) @@
      ("FECHA DE INICIO" :> c[1]) @@ ("FECHA DE FIN" :> c[2]) @@
      ("HORA INICIO" :> c[3]) @@ ("HORA FINAL" :> c[4]) @@
      ("TR (min)" :> c[5]) @@ ("TFS (min)" :> c[6]) @@ ("h normal (min)" :> c[7]) @@
      ("RESPONSABLE" :> R_Ana) @@ ("RESPONSABLE NOMBRE" :> N_AnaLopezNombre) :
      c \in CeldasCrudas }

InitLimpiar ==
    /\ df = <<>>
    /\ hoy = HoyFijo
    /\ llamada = ""
    /\ ret = <<>>
    /\ personal_data = SinPersonal
    /\ excepcion = ""
    /\ SinSesion

\* pd.read_excel reads one more row of the sheet
LeerFilaCruda ==
    /\ llamada = ""
    /\ Len(df) < MaxFilas
    /\ \E r \in FilasCrudas : df' = Append(df, [r EXCEPT !.OT = Len(df) + 1])
    /\ UNCHANGED <<hoy, llamada, ret, personal_data, excepcion, sesion>>

\* clean_and_prepare_data(df) on the sheet.  On a sheet without rows the call
\* raises KeyError when the table has no columns either (pd.DataFrame()); when
\* it has columns, the outcome of assigning the result of apply on an empty
\* table depends on the pandas of the build: ValueError or an empty table.
LlamarCleanAndPrepareData ==
    /\ llamada = ""
    /\ llamada' = "clean_and_prepare_data"
    /\ IF df = <<>>
       THEN excepcion' \in {"KeyError", "ValueError", ""}
       ELSE excepcion' = clean_excepcion(df)
    /\ ret' = IF excepcion' = "" THEN clean_and_prepare_data(df) ELSE <<>>
    /\ UNCHANGED <<df, hoy, personal_data, sesion>>

\* clean_and_prepare_data(x) for the table x the first call returned
LlamarCleanAndPrepareDataDeNuevo ==
    /\ llamada = "clean_and_prepare_data"
    /\ excepcion = ""
    /\ ret # <<>>
    /\ llamada' = "clean_and_prepare_data(x)"
    /\ df' = ret
    /\ excepcion' = clean_excepcion(ret)
    /\ ret' = IF excepcion' = "" THEN clean_and_prepare_data(ret) ELSE <<>>
    /\ UNCHANGED <<hoy, personal_data, sesion>>

NextLimpiar ==
    \/ LeerFilaCruda
    \/ LlamarCleanAndPrepareData
    \/ LlamarCleanAndPrepareDataDeNuevo

SpecLimpiar == InitLimpiar /\ [][NextLimpiar]_vars

----------------------------------------------------------------------------
(* Properties of clean_and_prepare_data *)

\* the cell of the sheet is a text that is no date
NoEsFecha(c) == c.tipo = "texto" /\ ~EsFechaISO(c.s)

\* C15: when a start-date or end-date cell of a row of the sheet cannot be
\* parsed as a date, clean_and_prepare_data does not raise, returns every row
\* of the batch and leaves that date null.
C15_UnparseableDate ==
    (llamada = "clean_and_prepare_data" /\ df # <<>>) =>
        /\ excepcion = ""
        /\ Len(ret) = Len(df)
        /\ \A i \in 1..Len(df) :
              /\ NoEsFecha(df[i]["FECHA DE INICIO"]) => ret[i].FECHA_DE_INICIO = NaT
              /\ NoEsFecha(df[i]["FECHA DE FIN"]) => ret[i].FECHA_DE_FIN = NaT

\* the duration columns of a cleaned table
ColumnasDuracion ==
    {"TIEMPO_PROG_MIN", "TDISPONIBLE", "TR_MIN", "TFC_MIN", "TFS_MIN",
     "H_NORMAL_MIN", "H_EXTRA_MIN"}

\* C16: in the table clean_and_prepare_data returns, every duration cell of
\* every row is a number >= 0, whatever the sheet held (a number of either
\* sign, a text, a blank).
C16_DurationsNonNegative ==
    (llamada = "clean_and_prepare_data" /\ excepcion = "") =>
        \A i \in 1..Len(ret) :
            \A col \in ColumnasDuracion \cap DOMAIN ret[i] :
                ret[i][col].tipo = "num" /\ ret[i][col].n >= 0

\* C20: cleaning a table that clean_and_prepare_data returned gives the same
\* rows with the same value in every field.
C20_Idempotent ==
    llamada = "clean_and_prepare_data(x)" => (excepcion = "" /\ ret = df)

----------------------------------------------------------------------------
(* Tables without rows and tables that lack a column.  A function that       *)
(* raises leaves the name of the exception in `excepcion` and returns        *)
(* nothing.                                                                  *)

ColumnasOpcionales ==
    {"TDISPONIBLE", "TFS_MIN", "TFC_MIN", "TR_MIN", "H_EXTRA_MIN", "RESPONSABLE", "STATUS"}

\* row r of a table that has no column c
SinColumna(r, c) == [k \in DOMAIN r \ {c} |-> r[k]]

\* the columns the dict given to agg names and the table lacks
FaltaAlguna(d, columnas) == \E c \in columnas : ~TieneColumna(d, c)

\* calculate_metrics raises KeyError on df['PRODUCCION_AFECTADA'] and on
\* df.groupby('TIPO DE MTTO')['TR_MIN'], which no test of df.columns guards
calculate_metrics_excepcion(d) ==
    IF d # <<>> /\ FaltaAlguna(d, {"PRODUCCION_AFECTADA", "TIPO_DE_MTTO", "TR_MIN"})
    THEN "KeyError" ELSE ""

\* get_weekly_data: agg raises KeyError for a column the table lacks
get_weekly_data_excepcion(d) ==
    IF /\ d # <<>>
       /\ TieneColumna(d, "FECHA_DE_INICIO")
       /\ FaltaAlguna(d, {"PRODUCCION_AFECTADA", "TFS_MIN", "TR_MIN", "TFC_MIN", "TDISPONIBLE"})
    THEN "KeyError" ELSE ""

\* get_weekly_emergency_data: the same, when there are emergency orders
get_weekly_emergency_data_excepcion(d) ==
    IF /\ d # <<>>
       /\ TieneColumna(d, "FECHA_DE_INICIO")
       /\ \/ ~TieneColumna(d, "TIPO_DE_MTTO")
          \/ /\ SelectSeq(d, EsEmergencia) # <<>>
             /\ FaltaAlguna(d, {"TR_MIN", "TFC_MIN", "TFS_MIN", "TDISPONIBLE",
                                "PRODUCCION_AFECTADA"})
    THEN "KeyError" ELSE ""

\* get_weekly_technician_hours and get_accumulated_technician_hours: agg
\* raises KeyError when the table lacks TR_MIN or H_EXTRA_MIN
get_weekly_technician_hours_excepcion(d) ==
    IF /\ d # <<>>
       /\ TieneColumna(d, "FECHA_DE_INICIO")
       /\ TieneColumna(d, "RESPONSABLE")
       /\ FaltaAlguna(d, {"TR_MIN", "H_EXTRA_MIN"})
    THEN "KeyError" ELSE ""

get_accumulated_technician_hours_excepcion(d) ==
    IF /\ d # <<>>
       /\ TieneColumna(d, "RESPONSABLE")
       /\ FaltaAlguna(d, {"TR_MIN", "H_EXTRA_MIN"})
    THEN "KeyError" ELSE ""

\* calculate_overtime_costs raises KeyError on
\* filtered_data_separado['H_EXTRA_MIN'], read before any test of the columns
calculate_overtime_costs_excepcion(d) ==
    IF d # <<>> /\ ~TieneColumna(d, "H_EXTRA_MIN") THEN "KeyError" ELSE ""

\* the orders of one week, with a technician the personnel sheet knows
FilasCol ==
    { [ OT |-> 0,
        TIPO_DE_MTTO |-> t[1],
        PRODUCCION_AFECTADA |-> t[2],
        STATUS |-> CULMINADO,
        FECHA_DE_INICIO |-> Fecha(2026, 1, 5),
        FECHA_DE_FIN |-> Fecha(2026, 1, 5),
        RESPONSABLE |-> t[3],
        TDISPONIBLE |-> Num(480),
        TFS_MIN |-> Num(60),
        TR_MIN |-> Num(30),
        TFC_MIN |-> Num(15),
        H_EXTRA_MIN |-> Num(120) ] :
      t \in { <<"CORRECTIVO DE EMERGENCIA", "SI", R_JuanPerez>>,
              <<"PREVENTIVO", "SI", R_Eva>>,
              <<"PREVENTIVO", "NO", R_JuanPerezComaEva>> } }

InitCol ==
    /\ df = <<>>
    /\ hoy = HoyFijo
    /\ llamada = ""
    /\ ret = <<>>
    /\ personal_data \in PersonalTablas
    /\ excepcion = ""
    /\ SinSesion

\* one more order of a sheet that has every column or lacks one of the
\* optional ones
CargarFilaCol ==
    /\ llamada = ""
    /\ Len(df) < MaxFilas
    /\ \E r \in FilasCol, c \in ColumnasOpcionales \cup {""} :
          LET fila == SinColumna([r EXCEPT !.OT = Len(df) + 1], c)
          IN  /\ df # <<>> => DOMAIN fila = DOMAIN df[1]
              /\ df' = Append(df, fila)
    /\ UNCHANGED <<hoy, llamada, ret, personal_data, excepcion, sesion>>

LlamarCalculateMetricsCol ==
    /\ llamada = ""
    /\ llamada' = "calculate_metrics"
    /\ excepcion' = calculate_metrics_excepcion(df)
    /\ ret' = IF excepcion' = "" THEN calculate_metrics(df) ELSE <<>>
    /\ UNCHANGED <<df, hoy, personal_data, sesion>>

LlamarGetWeeklyDataCol ==
    /\ llamada = ""
    /\ llamada' = "get_weekly_data"
    /\ excepcion' = get_weekly_data_excepcion(df)
    /\ ret' = IF excepcion' = "" THEN get_weekly_data(df) ELSE <<>>
    /\ UNCHANGED <<df, hoy, personal_data, sesion>>

LlamarGetWeeklyEmergencyDataCol ==
    /\ llamada = ""
    /\ llamada' = "get_weekly_emergency_data"
    /\ excepcion' = get_weekly_emergency_data_excepcion(df)
    /\ ret' = IF excepcion' = "" THEN get_weekly_emergency_data(df) ELSE <<>>
    /\ UNCHANGED <<df, hoy, personal_data, sesion>>

LlamarGetWeeklyTechnicianHoursCol ==
    /\ llamada = ""
    /\ llamada' = "get_weekly_technician_hours"
    /\ excepcion' = get_weekly_technician_hours_excepcion(df)
    /\ IF excepcion' = ""
       THEN \E t \in get_weekly_technician_hours(df) : ret' = t
       ELSE ret' = <<>>
    /\ UNCHANGED <<df, hoy, personal_data, sesion>>

LlamarGetAccumulatedTechnicianHoursCol ==
    /\ llamada = ""
    /\ llamada' = "get_accumulated_technician_hours"
    /\ excepcion' = get_accumulated_technician_hours_excepcion(df)
    /\ IF excepcion' = ""
       THEN \E t \in get_accumulated_technician_hours(df) : ret' = t
       ELSE ret' = <<>>
    /\ UNCHANGED <<df, hoy, personal_data, sesion>>

LlamarCalculateOvertimeCostsCol ==
    /\ llamada = ""
    /\ excepcion' = calculate_overtime_costs_excepcion(df)
    /\ IF excepcion' = ""
       THEN /\ LlamarCalculateOvertimeCosts
       ELSE /\ llamada' = "calculate_overtime_costs"
            /\ ret' = <<>>
            /\ UNCHANGED <<df, hoy, personal_data, sesion>>

\* clean_and_prepare_data on a sheet without rows
LlamarCleanAndPrepareDataVacia ==
    /\ df = <<>>
    /\ LlamarCleanAndPrepareData

NextCol ==
    \/ CargarFilaCol
    \/ LlamarCleanAndPrepareDataVacia
    \/ LlamarSepararTecnicos
    \/ LlamarCalculateMetricsCol
    \/ LlamarCalculateReliabilityMetricsSem
    \/ LlamarGetWeeklyDataCol
    \/ LlamarGetWeeklyTechnicianHoursCol
    \/ LlamarGetAccumulatedTechnicianHoursCol
    \/ LlamarGetWeeklyEmergencyDataCol
    \/ LlamarGetMonthlyPlanDataSem
    \/ LlamarCalculateOvertimeCostsCol

SpecCol == InitCol /\ [][NextCol]_vars

----------------------------------------------------------------------------
(* Properties of the calls on tables without rows or without a column *)

\* C17: called with an orders table without rows, every function of the
\* pipeline returns without raising, and what it returns is empty or holds
\* only zeros.
C17_EmptyInput ==
    (llamada # "" /\ df = <<>>) =>
        /\ excepcion = ""
        /\ CASE llamada = "calculate_overtime_costs" ->
                    ret.weekly_costs = <<>> /\ ret.accumulated_costs = <<>>
             [] llamada = "get_monthly_plan_data" ->
                    \A i \in 1..Len(ret) :
                        /\ ret[i].TOTAL_PLANIFICADAS = 0
                        /\ ret[i].ORDENES_CULMINADAS = 0
                        /\ ret[i].ORDENES_EN_EJECUCION = 0
                        /\ ret[i].ORDENES_RETRASADAS = 0
                        /\ ret[i].ORDENES_PROYECTADAS = 0
             [] OTHER -> ret = <<>>

FuncionesConColumnasOpcionales ==
    {"calculate_metrics", "get_weekly_data", "get_weekly_emergency_data",
     "get_monthly_plan_data", "calculate_overtime_costs"}

\* C18: called with a table that has rows and lacks one of the optional
\* columns, calculate_metrics, get_weekly_data, get_weekly_emergency_data,
\* get_monthly_plan_data and calculate_overtime_costs do not raise, and the
\* sums calculate_metrics takes from the missing column are 0.
C18_MissingColumns ==
    (llamada \in FuncionesConColumnasOpcionales /\ df # <<>>) =>
        /\ excepcion = ""
        /\ llamada = "calculate_metrics" =>
              /\ ~TieneColumna(df, "TDISPONIBLE") => ret.td = 0
              /\ ~TieneColumna(df, "TFS_MIN") => ret.tfs = 0
              /\ ~TieneColumna(df, "TFC_MIN") => ret.tfc = 0
              /\ ~TieneColumna(df, "TR_MIN") => ret.tr = 0
              /\ ~TieneColumna(df, "H_EXTRA_MIN") => ret.horas_extras_acumuladas = 0

\* C19: a call leaves the orders table and the personnel table it was given
\* as they were: same rows, same cells, same column names.
C19_InputsUnchanged ==
    [][llamada' # llamada => (df' = df /\ personal_data' = personal_data)]_vars

----------------------------------------------------------------------------
(* One row per name *)

\* s cut at every character of the set: every piece, empty ones included
RECURSIVE SplitEnCualquiera(_, _)
SplitEnCualquiera(s, cs) ==
    LET pos == {i \in 1..Len(s) : s[i] \in cs}
    IN  IF pos = {} THEN <<s>>
        ELSE <<SubSeq(s, 1, Min(pos) - 1)>>
                \o SplitEnCualquiera(SubSeq(s, Min(pos) + 1, Len(s)), cs)

\* every piece of a sequence of texts cut at the standalone word 'y'
RECURSIVE CortarEnPalabraY(_)
CortarEnPalabraY(piezas) ==
    IF piezas = <<>> THEN <<>>
    ELSE SplitPalabraY(Head(piezas)) \o CortarEnPalabraY(Tail(piezas))

\* The technician names a RESPONSABLE text lists: the trimmed, non-empty pieces
\* between delimiters of the fixed set (comma, semicolon, pipe, slash,
\* ampersand, the word 'y'), whichever kinds of delimiter the text uses.
NombresListados(s) ==
    StripNoVacias(CortarEnPalabraY(SplitEnCualquiera(s, {",", ";", "|", "/", "&"})))

\* the RESPONSABLE cells of a table, in row order
Nombres(d) == [j \in 1..Len(d) |-> d[j].RESPONSABLE]

\* C21: an order whose RESPONSABLE lists N >= 2 names joined by delimiters of
\* the fixed set, of one kind or of several, yields exactly N output rows, one
\* per name, each with RESPONSABLE equal to one trimmed name.
C21_OneRowPerName ==
    llamada = "separar_tecnicos" =>
        \A i \in 1..Len(df) :
            LET t == Str(df[i].RESPONSABLE)
            IN  (Lower(Strip(t)) # <<"n","a","n">> /\ Len(NombresListados(t)) >= 2)
                    => Nombres(FilasDeOrden(ret, df[i].OT)) = NombresListados(t)

\* C21 for the fields that use one kind of delimiter only.
C21_UnSoloDelimitador ==
    llamada = "separar_tecnicos" =>
        \A i \in 1..Len(df) :
            LET t == Str(df[i].RESPONSABLE)
            IN  (Len(NombresListados(t)) >= 2 /\ df[i].RESPONSABLE # R_AnaLuzEva)
                    => Nombres(FilasDeOrden(ret, df[i].OT)) = NombresListados(t)

----------------------------------------------------------------------------
(* Weekly bucket key *)

\* ISO year, '-S', two-digit ISO week number of a record's start date
ClaveISO(f) ==
    Decimal(IsoCalendar(f.FECHA_DE_INICIO)[1]) \o <<"-", "S">>
        \o Decimal02(IsoCalendar(f.FECHA_DE_INICIO)[2])

\* the records of the table that the aggregator called builds its buckets from
RegistrosEnAlcance == SelectSeq(df, EnAlcance)

\* C22: the weekly buckets returned are keyed by ISO year + '-S' + two-digit
\* ISO week of the start dates, one bucket per ISO week that holds a record:
\* two records share a bucket key if and only if their start dates lie in the
\* same ISO week.
C22_WeekKey ==
    llamada \in {"get_weekly_data", "get_weekly_emergency_data"} =>
        /\ {ret[a].SEMANA_STR : a \in 1..Len(ret)}
              = {ClaveISO(RegistrosEnAlcance[i]) : i \in 1..Len(RegistrosEnAlcance)}
        /\ \A i, j \in 1..Len(RegistrosEnAlcance) :
              (SEMANA_STR(RegistrosEnAlcance[i]) = SEMANA_STR(RegistrosEnAlcance[j]))
                <=> (IsoCalendar(RegistrosEnAlcance[i].FECHA_DE_INICIO)
                        = IsoCalendar(RegistrosEnAlcance[j].FECHA_DE_INICIO))

\* C22 for start dates whose ISO year is their calendar year.
C22_DentroDelAnio ==
    llamada \in {"get_weekly_data", "get_weekly_emergency_data"} =>
        ((\A i \in 1..Len(df) :
              IsoCalendar(df[i].FECHA_DE_INICIO)[1] = df[i].FECHA_DE_INICIO.year)
           => {ret[a].SEMANA_STR : a \in 1..Len(ret)}
                = {ClaveISO(RegistrosEnAlcance[i]) : i \in 1..Len(RegistrosEnAlcance)})

----------------------------------------------------------------------------
(* Rate tier: orders with overtime whose hour-type field is missing, names a *)
(* tier, or holds a text that names none; with or without that column.       *)

S_50 == <<"5","0","%">>
S_doble == <<"d","o","b","l","e">>

\* the values of the hour-type field 'TIPO HORA EXTRA'
TiposHora == { NaNTexto, S_100, S_50, S_doble }

\* overtime orders of technicians the personnel tables list, with the
\* hour-type column and without it
FilasTarifa ==
    { [ OT |-> 0, RESPONSABLE |-> r, TR_MIN |-> Num(180),
        H_EXTRA_MIN |-> Num(120), FECHA_DE_INICIO |-> Fecha(2026, 1, 5),
        TIPO_HORA_EXTRA |-> t ] : r \in {R_JuanPerez, N_AnaLopez}, t \in TiposHora }
    \cup
    { [ OT |-> 0, RESPONSABLE |-> r, TR_MIN |-> Num(180),
        H_EXTRA_MIN |-> Num(120), FECHA_DE_INICIO |-> Fecha(2026, 1, 5) ] :
      r \in {R_JuanPerez, N_AnaLopez} }

\* the personnel table as load_personal_data_from_google_sheets returns it
PersonalCargado ==
    CHOOSE p \in PersonalTablas : p.columnas # <<>> /\ p.columnas[1] = C_ApellidoYNombre

InitTarifa ==
    /\ df = <<>>
    /\ hoy = HoyFijo
    /\ llamada = ""
    /\ ret = <<>>
    /\ personal_data = PersonalCargado
    /\ excepcion = ""
    /\ SinSesion

\* One more order row reaches the table; every row has the table's columns.
CargarFilaTarifa ==
    /\ llamada = ""
    /\ Len(df) < MaxFilas
    /\ \E r \in FilasTarifa :
          /\ IF df = <<>> THEN TRUE ELSE DOMAIN r = DOMAIN df[1]
          /\ df' = Append(df, [r EXCEPT !.OT = Len(df) + 1])
    /\ UNCHANGED <<hoy, llamada, ret, personal_data, excepcion, sesion>>

NextTarifa == CargarFilaTarifa \/ LlamarCalculateOvertimeCosts

SpecTarifa == InitTarifa /\ [][NextTarifa]_vars

\* the hour-type field of a record holds a value
TieneTipoHora(f) == "TIPO_HORA_EXTRA" \in DOMAIN f /\ f.TIPO_HORA_EXTRA # NaNTexto

\* the tier the hour-type field names: 100 for a '100' token, 50 for a '50'
\* token, 0 when the field is absent or names neither
TierNombrado(f) ==
    IF ~TieneTipoHora(f) THEN 0
    ELSE IF Contains(f.TIPO_HORA_EXTRA, T_100) THEN 100
    ELSE IF Contains(f.TIPO_HORA_EXTRA, T_50) THEN 50
    ELSE 0

\* the rate of the record's technician at the named tier, 50% by default
TarifaDelTier(p, f) ==
    LET filas == FilasDePersonal(p, f.RESPONSABLE)
        celda == p.filas[Max(filas)][IF TierNombrado(f) = 100 THEN 3 ELSE 2]
    IN  IF filas = {} \/ celda = NaN THEN 0 ELSE celda[1]

\* (H_EXTRA_MIN / 60) * rate at the record's tier, summed over the records of
\* technician t
CostoDelTier(p, regs, t) ==
    LET suyos == SelectSeq(regs, LAMBDA f : Strip(f.RESPONSABLE) = t)
    IN  SumaFloat([i \in 1..Len(suyos) |->
            Fin(suyos[i].H_EXTRA_MIN[1] * TarifaDelTier(p, suyos[i]), 60)])

\* each technician is charged at the tier each of their records names, at 50%
\* when the record names none
TierCobrado ==
    LET regs == RegistrosConExtras(df)
    IN  \A t \in {Strip(regs[i].RESPONSABLE) : i \in 1..Len(regs)} :
            \E a \in 1..Len(ret.accumulated_costs) :
                /\ ret.accumulated_costs[a].TECNICO = t
                /\ ret.accumulated_costs[a].COSTO_TOTAL
                      = CostoDelTier(personal_data, regs, t)

\* C23: a record is charged at the 100% tier when its hour-type field holds a
\* '100' token, at 50% when it holds a '50' token and at 50% by default when
\* the field is absent or holds neither; the message counts every record
\* whose tier was defaulted, for either reason, as of indeterminate tier.
C23_RateTier ==
    llamada = "calculate_overtime_costs" =>
        /\ TierCobrado
        /\ ret.mensaje.tipo_indeterminado =
              Cardinality({i \in 1..Len(RegistrosConExtras(df)) :
                              TierNombrado(RegistrosConExtras(df)[i]) = 0})

\* C23 with only the records whose hour-type field is absent counted.
C23_SoloAusentes ==
    llamada = "calculate_overtime_costs" =>
        /\ TierCobrado
        /\ ret.mensaje.tipo_indeterminado =
              Cardinality({i \in 1..Len(RegistrosConExtras(df)) :
                              ~TieneTipoHora(RegistrosConExtras(df)[i])})

----------------------------------------------------------------------------
(* Fallback duration *)

\* the date a date cell of the sheet stands for can be read
FechaLegible(c) == c.tipo = "fecha" \/ (c.tipo = "texto" /\ EsFechaISO(c.s))

\* the date a legible date cell stands for
FechaLeida(c) ==
    IF c.tipo = "fecha" THEN c.f
    ELSE Fecha(Entero(SubSeq(c.s, 1, 4)), Entero(SubSeq(c.s, 6, 7)),
               Entero(SubSeq(c.s, 9, 10)))

\* the minutes from (start date + start time) to (end date + end time) of a
\* row of the sheet, 0 when the end precedes the start and 0 when one of the
\* four values cannot be read
DuracionDeFechas(r) ==
    IF /\ FechaLegible(r["FECHA DE INICIO"]) /\ FechaLegible(r["FECHA DE FIN"])
       /\ r["HORA INICIO"].tipo = "hora" /\ r["HORA FINAL"].tipo = "hora"
    THEN Max({0, (Ordinal(FechaLeida(r["FECHA DE FIN"])) * 1440
                    + r["HORA FINAL"].h * 60 + r["HORA FINAL"].m)
                 - (Ordinal(FechaLeida(r["FECHA DE INICIO"])) * 1440
                    + r["HORA INICIO"].h * 60 + r["HORA INICIO"].m)})
    ELSE 0

\* the direct TR value of a row of the sheet is missing or zero
TRAusente(r) ==
    \/ r["TR (min)"].tipo = "nan"
    \/ (r["TR (min)"].tipo = "num" /\ r["TR (min)"].n = 0)

\* TR_MIN of the cleaned row is the direct TR value of the sheet's row when
\* that is present and non-zero, the duration between the dates otherwise
TRComoSeDeclara(r, limpia) ==
    IF TRAusente(r) THEN limpia.TR_MIN = Numero(DuracionDeFechas(r))
    ELSE limpia.TR_MIN = r["TR (min)"]

\* C24: clean_and_prepare_data returns, for every row of the sheet, TR_MIN
\* equal to the direct TR value when that is present and non-zero, and
\* otherwise to the minutes from start date + time to end date + time, 0 when
\* the end precedes the start and 0 when a date or a time cannot be parsed.
C24_FallbackDuration ==
    (llamada = "clean_and_prepare_data" /\ df # <<>>) =>
        /\ excepcion = ""
        /\ Len(ret) = Len(df)
        /\ \A i \in 1..Len(df) : TRComoSeDeclara(df[i], ret[i])

\* C24 for the sheets whose date cells are dates or blank and whose TR cells
\* are numbers or blank.
C24_CeldasTipadas ==
    (/\ llamada = "clean_and_prepare_data" /\ df # <<>>
     /\ \A i \in 1..Len(df) :
           /\ df[i]["TR (min)"].tipo # "texto"
           /\ ~NoEsFecha(df[i]["FECHA DE INICIO"])) =>
        /\ excepcion = ""
        /\ Len(ret) = Len(df)
        /\ \A i \in 1..Len(df) : TRComoSeDeclara(df[i], ret[i])

----------------------------------------------------------------------------
(* Weekly emergency series: emergency correctives that stopped production    *)
(* and that did not, and a preventive order, in two weeks of January and in  *)
(* the days around the turn of the year.                                     *)

FechasEmergencia ==
    { Fecha(2025, 12, 29), Fecha(2026, 1, 2), Fecha(2026, 1, 5), Fecha(2026, 1, 7) }

\* <<TIPO DE MTTO, PRODUCCION_AFECTADA, TR_MIN>> of an order
TiemposEmergencia ==
    { <<"CORRECTIVO DE EMERGENCIA", "SI", 30>>,
      <<"CORRECTIVO DE EMERGENCIA", "NO", 45>>,
      <<"PREVENTIVO", "SI", 20>> }

FilasEmergencia ==
    { [ OT |-> 0,
        TIPO_DE_MTTO |-> t[1],
        PRODUCCION_AFECTADA |-> t[2],
        FECHA_DE_INICIO |-> f,
        TDISPONIBLE |-> Num(480),
        TFS_MIN |-> Num(60),
        TR_MIN |-> Num(t[3]),
        TFC_MIN |-> Num(15) ] :
      f \in FechasEmergencia, t \in TiemposEmergencia }

InitEmergencia ==
    /\ df = <<>>
    /\ hoy = HoyFijo
    /\ llamada = ""
    /\ ret = <<>>
    /\ personal_data = SinPersonal
    /\ excepcion = ""
    /\ SinSesion

CargarFilaEmergencia ==
    /\ llamada = ""
    /\ Len(df) < MaxFilas
    /\ \E r \in FilasEmergencia : df' = Append(df, [r EXCEPT !.OT = Len(df) + 1])
    /\ UNCHANGED <<hoy, llamada, ret, personal_data, excepcion, sesion>>

NextEmergencia == CargarFilaEmergencia \/ LlamarGetWeeklyEmergencyData

SpecEmergencia == InitEmergencia /\ [][NextEmergencia]_vars

\* the emergency correctives of the table whose bucket key is k
EmergenciasDeLaSemana(k) ==
    SelectSeq(SoloEmergencia(df), LAMBDA f : SEMANA_STR(f) = k)

\* C25: get_weekly_emergency_data returns one bucket per week key that holds
\* an emergency corrective; the bucket is built from all the emergency
\* correctives with that key, whatever their PRODUCCION_AFECTADA:
\* NUM_ORDENES_EMERGENCIA is their number, NUM_ORDENES_EMERGENCIA_PARADA the
\* number of those with PRODUCCION_AFECTADA = 'SI' (0 when none, never more
\* than NUM_ORDENES_EMERGENCIA), TR_MIN the sum of their repair times and
\* MTTR_SEMANAL = TR_MIN / NUM_ORDENES_EMERGENCIA.
C25_EmergencyBuckets ==
    llamada = "get_weekly_emergency_data" =>
        /\ {ret[a].SEMANA_STR : a \in 1..Len(ret)}
              = {SEMANA_STR(SoloEmergencia(df)[i]) : i \in 1..Len(SoloEmergencia(df))}
        /\ \A a, b \in 1..Len(ret) : ret[a].SEMANA_STR = ret[b].SEMANA_STR => a = b
        /\ \A a \in 1..Len(ret) :
              /\ ret[a].NUM_ORDENES_EMERGENCIA
                    = Len(EmergenciasDeLaSemana(ret[a].SEMANA_STR))
              /\ ret[a].NUM_ORDENES_EMERGENCIA_PARADA
                    = Len(SelectSeq(EmergenciasDeLaSemana(ret[a].SEMANA_STR),
                                    LAMBDA f : f.PRODUCCION_AFECTADA = "SI"))
              /\ ret[a].NUM_ORDENES_EMERGENCIA_PARADA <= ret[a].NUM_ORDENES_EMERGENCIA
              /\ ret[a].TR_MIN
                    = SumaSec([i \in 1..Len(EmergenciasDeLaSemana(ret[a].SEMANA_STR)) |->
                                  EmergenciasDeLaSemana(ret[a].SEMANA_STR)[i].TR_MIN[1]])
              /\ IF ret[a].NUM_ORDENES_EMERGENCIA > 0
                 THEN EsCociente(ret[a].MTTR_SEMANAL, ret[a].TR_MIN,
                                 ret[a].NUM_ORDENES_EMERGENCIA)
                 ELSE ret[a].MTTR_SEMANAL = Ent(0)

\* Two emergency correctives of the week of 2026-01-05, one that stopped
\* production (TR 30) and one that did not (TR 45), make one bucket of two
\* orders, one of them with stoppage, TR 75 and MTTR 37.5.
C25_Witness ==
    /\ llamada = "get_weekly_emergency_data"
    /\ Len(df) = 2
    /\ df[1].TIPO_DE_MTTO = "CORRECTIVO DE EMERGENCIA" /\ df[1].PRODUCCION_AFECTADA = "SI"
    /\ df[2].TIPO_DE_MTTO = "CORRECTIVO DE EMERGENCIA" /\ df[2].PRODUCCION_AFECTADA = "NO"
    /\ df[1].FECHA_DE_INICIO = Fecha(2026, 1, 5)
    /\ df[2].FECHA_DE_INICIO = Fecha(2026, 1, 7)
    /\ Len(ret) = 1
    /\ ret[1].NUM_ORDENES_EMERGENCIA = 2
    /\ ret[1].NUM_ORDENES_EMERGENCIA_PARADA = 1
    /\ ret[1].TR_MIN = 75
    /\ ret[1].MTTR_SEMANAL = Fin(75, 2)

\* An emergency corrective that did not stop production, alone in its week,
\* makes a bucket of one order and no stoppage.
C25_SinParada ==
    /\ llamada = "get_weekly_emergency_data"
    /\ Len(ret) = 1
    /\ ret[1].NUM_ORDENES_EMERGENCIA = 1
    /\ ret[1].NUM_ORDENES_EMERGENCIA_PARADA = 0

----------------------------------------------------------------------------
(* The monthly plan under the date cut-off *)

\* the planned orders of 2026 of month mes whose start and end dates are both
\* on or before the day before `hoy`: the orders TOTAL_PLANIFICADAS counts
PlanificadasHastaAyer(mes) ==
    SelectSeq(df, LAMBDA f :
        /\ EsPlanificada2026(f)
        /\ f.FECHA_DE_INICIO.month = mes
        /\ Ordinal(f.FECHA_DE_INICIO) <= Ordinal(hoy) - 1
        /\ Ordinal(f.FECHA_DE_FIN) <= Ordinal(hoy) - 1)

\* the status of the order reads as pending
LeePendiente(f) == Contains(Upper(Str(f.STATUS)), T_PENDIENTE)

----------------------------------------------------------------------------
(* The browser session.  Streamlit runs the script from top to bottom at     *)
(* every interaction: the login gate of the module, then main(), which shows *)
(* the sidebar with the logout button and loads the two sheets into          *)
(* st.session_state.  One action is one run of the script.  st.session_state *)
(* is a function from the keys it holds to their values; cache_data is a     *)
(* function from the name of a loader to the result st.cache_data holds for  *)
(* it; corrida records what the last run did.                                *)

\* Largest number of runs of the script in a session.
MaxCorridas == 8

\* the variables of the pipeline functions, which a session leaves alone
tuberia == <<df, hoy, llamada, ret, personal_data, excepcion>>

\* last_update = None
None == <<>>

\* hashlib.sha256(password.encode()).hexdigest(): the digest is an opaque
\* value; passwords that differ have digests that differ
sha256(password) == <<"sha256", password>>

USUARIOS ==
    ("w.jimenez@fortidex.com" :>
        [nombre |-> "Administrador", password_hash |-> sha256("admin123"), rol |-> "admin"])
    @@ ("supervisor@fortidex.com" :>
        [nombre |-> "Supervisor", password_hash |-> sha256("super123"), rol |-> "supervisor"])
    @@ ("tecnico@fortidex.com" :>
        [nombre |-> "Tecnico", password_hash |-> sha256("tec123"), rol |-> "tecnico"])

\* verificar_login without the comparison of the digests
verificar_login_sin_clave(email, password) ==
    IF email \in DOMAIN USUARIOS
    THEN [login_exitoso |-> TRUE, usuario_info |-> <<USUARIOS[email]>>]
    ELSE [login_exitoso |-> FALSE, usuario_info |-> <<>>]

\* verificar_login(email, password): (True, USUARIOS[email]) or (False, None)
verificar_login(email, password) ==
    IF email \in DOMAIN USUARIOS /\ USUARIOS[email].password_hash = sha256(password)
    THEN [login_exitoso |-> TRUE, usuario_info |-> <<USUARIOS[email]>>]
    ELSE [login_exitoso |-> FALSE, usuario_info |-> <<>>]

\* st.session_state[k] = v
Asignar(s, k, v) == (k :> v) @@ s

\* if "autenticado" not in st.session_state: st.session_state["autenticado"] = False
con_autenticado(s) ==
    IF "autenticado" \in DOMAIN s THEN s ELSE Asignar(s, "autenticado", FALSE)

\* mostrar_login() with the texts typed in the two fields: the session state
\* it leaves when 'Iniciar Sesion' was pressed
mostrar_login(s, email, password) ==
    IF email # "" /\ password # "" /\ verificar_login(email, password).login_exitoso
    THEN Asignar(Asignar(Asignar(s, "autenticado", TRUE),
                         "usuario", verificar_login(email, password).usuario_info),
                 "email", email)
    ELSE s

\* the keys 'Cerrar Sesion' deletes nothing of, with the data key among the deleted
claves_sin_data == {"personal_data", "last_update"}

\* the keys 'Cerrar Sesion' does not delete
claves_conservadas == {"data", "personal_data", "last_update"}

\* the session state after 'Cerrar Sesion' was pressed
cerrar_sesion(s) ==
    Asignar([k \in DOMAIN s \cap claves_conservadas |-> s[k]], "autenticado", FALSE)

\* main: the three keys are created when the session lacks them
inicializar(s) ==
    s @@ ("data" :> <<>>) @@ ("personal_data" :> SinPersonal) @@ ("last_update" :> None)

\* st.session_state.data.empty
data_empty(s) == s.data = <<>>

\* main: the table load_data_from_google_sheets returned is stored, with the
\* time of the load, when it is not empty
carga_de_datos(s, d, ahora) ==
    IF d # <<>>
    THEN Asignar(Asignar(s, "data", d), "last_update", <<ahora>>)
    ELSE s

\* main: the personnel table is stored when it is not empty
carga_de_personal(s, p) ==
    IF ~PersonalVacio(p) THEN Asignar(s, "personal_data", p) ELSE s

\* the row of d with the earliest / the latest FECHA_DE_INICIO
min_date(d) ==
    (CHOOSE f \in Rango(d) : \A g \in Rango(d) :
        AntesOIgual(f.FECHA_DE_INICIO, g.FECHA_DE_INICIO)).FECHA_DE_INICIO
max_date(d) ==
    (CHOOSE f \in Rango(d) : \A g \in Rango(d) :
        AntesOIgual(g.FECHA_DE_INICIO, f.FECHA_DE_INICIO)).FECHA_DE_INICIO

\* main: the date filters of the sidebar are widgets with the keys
\* 'fecha_inicio' and 'fecha_fin'; their values live in the session state
filtros(s) ==
    IF data_empty(s) THEN s
    ELSE s @@ ("fecha_inicio" :> min_date(s.data)) @@ ("fecha_fin" :> max_date(s.data))

\* the names under which st.cache_data keeps the results of the loaders
F_DATA == "load_data_from_google_sheets"
F_PERSONAL == "load_personal_data_from_google_sheets"

\* what a call of a cached loader may return: the cached result while
\* st.cache_data holds one, else one of the results of reading the sheet
resultados(cache, f, lecturas) == IF f \in DOMAIN cache THEN {cache[f]} ELSE lecturas

\* the cache after the call of loader f returned r
cacheado(cache, f, r) == (f :> r) @@ cache

\* the cleaned sheet DATAMTTO at two moments (an order is added), and the
\* empty table load_data_from_google_sheets returns when the reading fails
LecturasHoja ==
    { <<>>,
      << [OT |-> 1, FECHA_DE_INICIO |-> Fecha(2026, 1, 5)] >>,
      << [OT |-> 1, FECHA_DE_INICIO |-> Fecha(2026, 1, 5)],
         [OT |-> 2, FECHA_DE_INICIO |-> Fecha(2026, 1, 12)] >> }

\* the personnel sheet, and the empty table of a failed reading
LecturasPersonal == { SinPersonal, PersonalCargado }

\* the texts typed in the login form
Correos == { "", "w.jimenez@fortidex.com", "supervisor@fortidex.com", "otro@fortidex.com" }
Claves == { "", "admin123", "super123" }

\* the record of a run: its number, the part of the script it executed, the
\* texts of the login attempt if it was one, whether it ended in st.rerun(),
\* whether it called the loaders and what load_data_from_google_sheets
\* returned, whether that call ran the body of the loader (st.cache_data held
\* no result for it) and so read the sheet, and, in tras, the part the run
\* before executed when this run is the one its st.rerun() asked for
Corrida(n, cuerpo, intento, rerun, fetch_data, d, fetch_personal) ==
    [ n |-> n, cuerpo |-> cuerpo, intento |-> intento, rerun |-> rerun,
      fetch_data |-> fetch_data, df |-> d, fetch_personal |-> fetch_personal,
      lee_hoja |-> fetch_data /\ F_DATA \notin DOMAIN cache_data,
      tras |-> IF corrida.rerun THEN corrida.cuerpo ELSE "" ]

InitSesion ==
    /\ df = <<>>
    /\ hoy = HoyFijo
    /\ llamada = ""
    /\ ret = <<>>
    /\ personal_data = SinPersonal
    /\ excepcion = ""
    /\ session_state = <<>>
    /\ cache_data = <<>>
    /\ corrida = [ n |-> 0, cuerpo |-> "", intento |-> <<>>, rerun |-> FALSE,
                   fetch_data |-> FALSE, df |-> <<>>, fetch_personal |-> FALSE,
                   lee_hoja |-> FALSE, tras |-> "" ]

\* main() from the creation of the three keys on, in a run in which 'Cerrar
\* Sesion' was not pressed, for the session state s the gate let through
Main(s) ==
    \E d \in (IF data_empty(inicializar(s))
              THEN resultados(cache_data, F_DATA, LecturasHoja) ELSE {<<>>}),
       p \in (IF PersonalVacio(inicializar(s).personal_data)
              THEN resultados(cache_data, F_PERSONAL, LecturasPersonal)
              ELSE {SinPersonal}) :
        LET s2 == inicializar(s)
            fetch_data == data_empty(s2)
            fetch_personal == PersonalVacio(s2.personal_data)
            s3 == IF fetch_data THEN carga_de_datos(s2, d, corrida.n + 1) ELSE s2
            s4 == IF fetch_personal THEN carga_de_personal(s3, p) ELSE s3
            c1 == IF fetch_data THEN cacheado(cache_data, F_DATA, d) ELSE cache_data
        IN  /\ session_state' = filtros(s4)
            /\ cache_data' = IF fetch_personal THEN cacheado(c1, F_PERSONAL, p) ELSE c1
            /\ corrida' = Corrida(corrida.n + 1, "main", <<>>, FALSE,
                                  fetch_data, IF fetch_data THEN d ELSE <<>>,
                                  fetch_personal)

\* A run of the script in which no button is pressed: the first run of the
\* session, the run st.rerun() asks for, or the run after a change of a filter.
Rerun ==
    /\ corrida.n < MaxCorridas
    /\ IF ~con_autenticado(session_state).autenticado
       THEN /\ session_state' = con_autenticado(session_state)
            /\ corrida' = Corrida(corrida.n + 1, "mostrar_login", <<>>, FALSE,
                                  FALSE, <<>>, FALSE)
            /\ UNCHANGED cache_data
       ELSE Main(con_autenticado(session_state))
    /\ UNCHANGED tuberia

\* The run in which 'Iniciar Sesion' is pressed, with the login form on
\* screen: mostrar_login() checks the credentials, stores the user and asks
\* for a rerun when they are right; st.stop() ends the run.
IniciarSesion ==
    /\ corrida.n < MaxCorridas
    /\ corrida.cuerpo = "mostrar_login" /\ ~corrida.rerun
    /\ \E email \in Correos, password \in Claves :
          /\ session_state' =
                mostrar_login(con_autenticado(session_state), email, password)
          /\ corrida' = Corrida(corrida.n + 1, "mostrar_login", <<email, password>>,
                                session_state'.autenticado, FALSE, <<>>, FALSE)
    /\ UNCHANGED <<cache_data, tuberia>>

\* The run in which 'Cerrar Sesion' is pressed, with the sidebar on screen:
\* main() gets as far as mostrar_info_usuario(), which deletes the keys and
\* asks for a rerun.
CerrarSesion ==
    /\ corrida.n < MaxCorridas
    /\ corrida.cuerpo = "main" /\ ~corrida.rerun
    /\ session_state' = cerrar_sesion(con_autenticado(session_state))
    /\ corrida' = Corrida(corrida.n + 1, "main: cerrar sesion", <<>>, TRUE,
                          FALSE, <<>>, FALSE)
    /\ UNCHANGED <<cache_data, tuberia>>

\* ttl=300: st.cache_data drops the result of a loader after five minutes
ExpirarCache ==
    /\ \E f \in DOMAIN cache_data :
          cache_data' = [g \in DOMAIN cache_data \ {f} |-> cache_data[g]]
    /\ UNCHANGED <<session_state, corrida, tuberia>>

NextSesion == Rerun \/ IniciarSesion \/ CerrarSesion \/ ExpirarCache

SpecSesion == InitSesion /\ [][NextSesion]_vars

----------------------------------------------------------------------------
(* C27 *)

\* the session key autenticado is True
Autenticado(s) == "autenticado" \in DOMAIN s /\ s.autenticado = TRUE

\* the attempt names a user of USUARIOS and the digest of its password is
\* the one stored for that user
CredencialesValidas(intento) ==
    /\ intento # <<>>
    /\ intento[1] \in DOMAIN USUARIOS
    /\ USUARIOS[intento[1]].password_hash = sha256(intento[2])

\* C27: login gate.  In every run of the script, whatever attempts, logouts
\* and reruns came before: main() is entered, and a sheet is fetched, only if
\* the session key autenticado was True when the run began; autenticado
\* changes to True only in a run that is a login attempt whose email is a key
\* of USUARIOS and whose password has the stored SHA-256 digest; and after an
\* attempt that is wrong or incomplete autenticado is False and the session
\* has neither the key usuario nor the key email.
C27_LoginGate ==
    [][ (corrida'.n # corrida.n) =>
          /\ (corrida'.cuerpo \in {"main", "main: cerrar sesion"})
                => Autenticado(session_state)
          /\ (corrida'.fetch_data \/ corrida'.fetch_personal)
                => (Autenticado(session_state) /\ corrida'.cuerpo = "main")
          /\ (Autenticado(session_state') /\ ~Autenticado(session_state))
                => CredencialesValidas(corrida'.intento)
          /\ (corrida'.intento # <<>> /\ ~CredencialesValidas(corrida'.intento))
                => /\ session_state'.autenticado = FALSE
                   /\ "usuario" \notin DOMAIN session_state'
                   /\ "email" \notin DOMAIN session_state' ]_vars

\* a user logged in, main() ran and loaded the sheet, the user logged out,
\* and an attempt with the right email and another user's password failed
C27_Witness ==
    /\ corrida.intento = <<"w.jimenez@fortidex.com", "super123">>
    /\ ~Autenticado(session_state)
    /\ "data" \in DOMAIN session_state
    /\ session_state.data # <<>>

----------------------------------------------------------------------------
(* C28 *)

\* the session holds a loaded table under key k
HayTabla(s, k) ==
    /\ k \in DOMAIN s
    /\ IF k = "data" THEN s[k] # <<>> ELSE s[k].filas # <<>>

\* C28: logout frame.  The run in which 'Cerrar Sesion' is pressed leaves a
\* session whose keys are autenticado, with the value False, and those of
\* data, personal_data and last_update the session had, each with the value
\* it had; and the run of main() that follows the next successful login
\* calls the loader of no table the session holds and shows that table as it
\* was.
C28_LogoutFrame ==
    [][ /\ (corrida'.n # corrida.n /\ corrida'.cuerpo = "main: cerrar sesion") =>
              /\ DOMAIN session_state' =
                    {"autenticado"} \cup
                    (DOMAIN session_state \cap {"data", "personal_data", "last_update"})
              /\ session_state'.autenticado = FALSE
              /\ \A k \in {"data", "personal_data", "last_update"} \cap DOMAIN session_state :
                    session_state'[k] = session_state[k]
        /\ (corrida'.n # corrida.n /\ corrida'.cuerpo = "main"
                /\ corrida'.tras = "mostrar_login") =>
              /\ HayTabla(session_state, "data") =>
                    /\ ~corrida'.fetch_data
                    /\ session_state'.data = session_state.data
                    /\ session_state'.last_update = session_state.last_update
              /\ HayTabla(session_state, "personal_data") =>
                    /\ ~corrida'.fetch_personal
                    /\ session_state'.personal_data = session_state.personal_data
      ]_vars

\* after a logout another user logged in, and main() showed the table the
\* first session had loaded without calling the loader
C28_Witness ==
    /\ corrida.cuerpo = "main"
    /\ corrida.tras = "mostrar_login"
    /\ ~corrida.fetch_data
    /\ HayTabla(session_state, "data")
    /\ session_state.last_update = <<3>>
    /\ session_state.email = "supervisor@fortidex.com"
    /\ "fecha_inicio" \in DOMAIN session_state

----------------------------------------------------------------------------
(* C29 *)

\* the value of last_update, None while the session lacks the key
UltimaActualizacion(s) == IF "last_update" \in DOMAIN s THEN s.last_update ELSE None

\* the run before was a run of main() whose fetch of the orders failed
FalloLaCarga == corrida.cuerpo = "main" /\ corrida.fetch_data /\ corrida.df = <<>>

\* what C29 says of every run but the retry: the sheet of the orders is read
\* only in a run that finds no table in the session; a stored table is the
\* same after every run, logout included; last_update is set only when the
\* session holds a table; a fetch that returns the empty table leaves data
\* empty and last_update as it was
CargaUnaVez ==
    /\ (corrida'.fetch_data \/ corrida'.lee_hoja) => ~HayTabla(session_state, "data")
    /\ HayTabla(session_state, "data") => session_state'.data = session_state.data
    /\ UltimaActualizacion(session_state') # None => HayTabla(session_state', "data")
    /\ (corrida'.fetch_data /\ corrida'.df = <<>>) =>
          /\ session_state'.data = <<>>
          /\ session_state'.last_update = UltimaActualizacion(session_state)

\* C29: session data loading.  Over every sequence of runs: the orders are
\* fetched only in a run in which the session's data is empty; a stored
\* non-empty table is never replaced or cleared; last_update is non-null
\* only if a non-empty table is stored; a fetch that fails leaves data empty
\* and last_update unchanged, and the next run of main() fetches the sheet
\* again.
C29_SessionDataLoading ==
    [][ (corrida'.n # corrida.n) =>
          /\ CargaUnaVez
          /\ (FalloLaCarga /\ corrida'.cuerpo = "main") => corrida'.lee_hoja ]_vars

\* the same with the retry read as the call of load_data_from_google_sheets,
\* whether or not st.cache_data answers it: this the code does
C29_LlamaDeNuevo ==
    [][ (corrida'.n # corrida.n) =>
          /\ CargaUnaVez
          /\ (FalloLaCarga /\ corrida'.cuerpo = "main") => corrida'.fetch_data ]_vars

\* the retry reads the sheet once the cached result has expired
C29_TrasExpirar ==
    [][ (corrida'.n # corrida.n /\ FalloLaCarga /\ corrida'.cuerpo = "main"
            /\ F_DATA \notin DOMAIN cache_data) => corrida'.lee_hoja ]_vars

\* a failed fetch was followed by a run of main() that st.cache_data answered
\* with the empty table of the failure
C29_FalloServidoDelCache ==
    /\ FalloLaCarga
    /\ ~corrida.lee_hoja
    /\ session_state.data = <<>>
    /\ session_state.last_update = None

----------------------------------------------------------------------------
(* C30 *)

\* the names of the technicians calculate_overtime_costs processes: those of
\* the expanded records with overtime, as written (stripped)
TecnicosProcesados(d) ==
    {Strip(RegistrosConExtras(d)[i].RESPONSABLE) : i \in 1..Len(RegistrosConExtras(d))}

\* technician t has no entry of its own in the personnel table p, and its
\* normalised name contains, or is contained in, the name of an entry
SoloCoincideEnParte(p, t) ==
    /\ FilasDePersonal(p, t) = {}
    /\ \E i \in 1..Len(p.filas) :
          \/ Contains(nombre_normalizado(Str(p.filas[i][1])), nombre_normalizado(t))
          \/ Contains(nombre_normalizado(t), nombre_normalizado(Str(p.filas[i][1])))

\* C30: after a successful calculation the technicians reported as found and
\* those reported as not found are disjoint and together are the technicians
\* processed: the two counts of the message add up to the number of
\* technician names processed, whether a name matched the personnel table
\* exactly, by containment, or not at all.
C30_FoundNotFoundPartition ==
    (/\ llamada = "calculate_overtime_costs"
     /\ ~PersonalVacio(personal_data)
     /\ ret.mensaje.texto = "Calculo exitoso") =>
        ret.mensaje.encontrados + ret.mensaje.no_encontrados =
            Cardinality(TecnicosProcesados(df))

\* the same when no processed technician matches by containment only
C30_SinCoincidenciaParcial ==
    (/\ llamada = "calculate_overtime_costs"
     /\ ~PersonalVacio(personal_data)
     /\ ret.mensaje.texto = "Calculo exitoso"
     /\ \A t \in TecnicosProcesados(df) : ~SoloCoincideEnParte(personal_data, t)) =>
        ret.mensaje.encontrados + ret.mensaje.no_encontrados =
            Cardinality(TecnicosProcesados(df))

\* a technician that matches by containment only is counted in both sets:
\* the counts add up to one more per such technician
C30_ContadoDosVeces ==
    (/\ llamada = "calculate_overtime_costs"
     /\ ~PersonalVacio(personal_data)
     /\ ret.mensaje.texto = "Calculo exitoso") =>
        ret.mensaje.encontrados + ret.mensaje.no_encontrados =
            Cardinality(TecnicosProcesados(df))
            + Cardinality({t \in TecnicosProcesados(df) :
                              SoloCoincideEnParte(personal_data, t)})

\* a calculation with a technician found exactly and one not found at all
C30_ExactoYAusente ==
    /\ llamada = "calculate_overtime_costs"
    /\ ~PersonalVacio(personal_data)
    /\ ret.mensaje.texto = "Calculo exitoso"
    /\ ret.mensaje.encontrados = 1
    /\ ret.mensaje.no_encontrados = 1
    /\ Cardinality(TecnicosProcesados(df)) = 2

====
